---- MODULE Spec2Model ----
(***************************************************************************)
(* A model of the ECS runtime of @medieval/sword.                          *)
(*                                                                         *)
(* JavaScript objects have identity, so the model keeps a heap: objs is    *)
(* the sequence of the objects allocated so far and a reference is an      *)
(* index into it.  An object is a function from the keys it owns to their  *)
(* values, so that  k \in DOMAIN o  is the  `k in o`  of the source.       *)
(* User callbacks (listeners, hooks, onAdd/onRemove) are observers: every  *)
(* invocation made by the last operation is recorded in calls.             *)
(***************************************************************************)
EXTENDS Integers, Sequences, FiniteSets, TLC

VARIABLES
    objs,                 \* the heap: ref -> object (keys -> values)
    entities,             \* World.entities            (ecs.ts:55)
    archetypes,           \* World.archetypes          (ecs.ts:56)
    onEntityAddedHooks,   \* World.onEntityAddedHooks  (ecs.ts:58)
    onEntityRemovedHooks, \* World.onEntityRemovedHooks(ecs.ts:59)
    eventListeners,       \* World.eventListeners      (ecs.ts:61)
    entityById,           \* World.entityById          (ecs.ts:62)
    nextId,               \* World.nextId              (ecs.ts:63)
    genLog,               \* what genID returned so far: <<id, entity>>, in order
    entityCreationQueue,  \* World.entityCreationQueue (ecs.ts:64)
    systems,              \* World.systems             (ecs.ts:57)
    onUpdateHooks,        \* World.onUpdateHooks       (ecs.ts:60)
    queries,              \* the query objects that registered closures keep alive:
                          \* their filter and their matchedEntities array
    mwEntities,           \* middleware World.entities
    cachedQueries,        \* middleware World.cachedQueries
    mwEventListeners,     \* middleware World.eventListeners
    middlewares,          \* middleware World.middlewares
    shortCircuited,       \* whether some emission so far stopped at a middleware
    colEntities,          \* Collection._entities         (collection.ts:21)
    colListeners,         \* Collection._listeners        (collection.ts:24)
    added,                \* World.added of the World that extends Collection
    removed,              \* World.removed of the World that extends Collection
    runnerSystems,        \* Runner._systems              (Runner.ts:4)
    runnerLog,            \* the systems given to Runner.addSystem so far, in order
    runs,                 \* the activations of the async run / runSystems so far
    microtasks,           \* the activations whose await can resume, oldest first
    trace,                \* what the activations did so far, in order
    observers,            \* World.observers             (Runner.ts:143)
    proxies,              \* the proxies that observe returned: target and callback
    observeLog,           \* the observe / unobserve calls so far, in order
    interval,             \* WorldRunner.interval         (simRunner.ts:8)
    timers,               \* the interval timers of the host that are active
    nextTimer,            \* the id that the next setInterval returns
    drainPc,              \* the runSystems call that is in its while loop, if any
    calls,                \* callbacks invoked by the last operation, in order
    last                  \* the last operation: its name, arguments and result

ecsVars == <<entities, archetypes, onEntityAddedHooks, onEntityRemovedHooks,
             eventListeners, entityById, nextId, genLog, entityCreationQueue,
             systems, onUpdateHooks, queries>>
mwVars == <<mwEntities, cachedQueries, mwEventListeners, middlewares, shortCircuited>>
colVars == <<colEntities, colListeners>>
subVars == <<added, removed>>
runVars == <<runnerSystems, runnerLog>>
asyncVars == <<runs, microtasks, trace>>
obsVars == <<observers, proxies, observeLog>>
timerVars == <<interval, timers, nextTimer>>
drainVars == <<drainPc>>

vars == <<objs, ecsVars, mwVars, colVars, subVars, runVars, asyncVars, obsVars,
          timerVars, drainVars, calls, last>>

\* the lists that only addSystem, addOnUpdateHook and runSystems use
tick == <<systems, onUpdateHooks>>

\* what the operations of one world leave alone
\* (a handler that does not await leaves the suspended activations alone)
notEcs == <<mwVars, colVars, subVars, runVars, asyncVars, obsVars,
            timerVars, drainVars>>
ecsStore == <<entities, archetypes, onEntityAddedHooks, onEntityRemovedHooks,
              eventListeners, entityById, nextId, genLog, entityCreationQueue,
              queries>>
notMw == <<ecsVars, colVars, subVars, runVars, asyncVars, obsVars,
            timerVars, drainVars>>
\* Collection's own methods do not touch the fields of its subclass
notCol == <<ecsVars, mwVars, subVars, runVars, asyncVars, obsVars,
            timerVars, drainVars>>
notSub == <<ecsVars, mwVars, runVars, asyncVars, obsVars,
            timerVars, drainVars>>
notRun == <<ecsVars, mwVars, colVars, subVars, asyncVars, obsVars,
            timerVars, drainVars>>
notAsync == <<mwVars, colVars, subVars, runVars, obsVars,
            timerVars, drainVars>>
notObs == <<mwVars, colVars, subVars, runVars, asyncVars, timerVars, drainVars>>
notTimer == <<objs, ecsVars, mwVars, colVars, subVars, runVars, asyncVars, obsVars,
              drainVars>>
notDrain == <<mwVars, colVars, subVars, runVars, asyncVars, obsVars, timerVars>>

----------------------------------------------------------------------------
(* Bounds of the model *)

MaxObjs == 3      \* objects allocated in one behaviour
MaxIds == 3       \* numeric ids handed out in one behaviour
MaxSubs == 2      \* callbacks registered in one behaviour
MaxQueries == 1   \* query objects kept by callers in one behaviour
MaxQueue == 2     \* entity specifications waiting in the deferred queue

----------------------------------------------------------------------------
(* Values *)

Keys == {"health", "tag"}
Vals == {0, 1}                      \* 0 is falsy, 1 is truthy
NoRef == 0                          \* undefined / null / an object the world never saw
Undefined == -1                     \* undefined, where a number can stand
Literals == {<<>>, [health |-> 1], [health |-> 0, tag |-> 1]}
ArchNames == {"basic", "ghost"}

Refs == 1..Len(objs)
Range(s) == {s[i] : i \in DOMAIN s}

\* Array.prototype.indexOf: the first index holding x, 0 for the source's -1
IndexOf(s, x) ==
    IF \E i \in DOMAIN s : s[i] = x
    THEN CHOOSE i \in DOMAIN s : s[i] = x /\ \A j \in 1..(i - 1) : s[j] # x
    ELSE 0

\* Array.prototype.splice(index, 1); index 0 is the source's -1, which
\* splice counts from the end: it removes the last element
Splice1(s, i) ==
    IF s = <<>> THEN s
    ELSE [j \in 1..(Len(s) - 1) |-> IF i # 0 /\ j >= i THEN s[j + 1] ELSE s[j]]

\* { ...a, ...b }: the keys of both, b's value where both have the key
SpreadTemplateWins(a, b) ==
    [k \in (DOMAIN a) \cup (DOMAIN b) |-> IF k \in DOMAIN a THEN a[k] ELSE b[k]]
Spread2(a, b) ==
    [k \in (DOMAIN a) \cup (DOMAIN b) |-> IF k \in DOMAIN b THEN b[k] ELSE a[k]]

\* The object literal { ...components } is a new object: its reference.
\* r is the caller's object when the caller kept one, NoRef for a literal.
SpreadAlias(heap, r) == IF r = NoRef THEN Len(heap) + 1 ELSE r
NewObject(heap, r) == Len(heap) + 1

\* The heap after storing object o under reference e
Store(heap, e, o) ==
    IF e > Len(heap) THEN Append(heap, o) ELSE [heap EXCEPT ![e] = o]

----------------------------------------------------------------------------
(* Filters of the query engine: ecs.ts *)

\* A filter is a function from the clauses it specifies to their values:
\* has, none and tags to a set of keys, where to the name of a predicate.
\* The predicate of the README: (entity) => entity.health > 0
WhereHolds(p, o) == p = "healthPositive" /\ "health" \in DOMAIN o /\ o["health"] > 0

\* !!entity[tag]
Truthy(o, k) == k \in DOMAIN o /\ o[k] # 0

\* the callback of this.entities.filter in match()
MatchesTagsAsHas(filter, o) ==
    LET hasComponents ==
            IF "has" \in DOMAIN filter
            THEN \A component \in filter["has"] : component \in DOMAIN o ELSE TRUE
        passesCondition ==
            IF "where" \in DOMAIN filter THEN WhereHolds(filter["where"], o) ELSE TRUE
        lacksComponents ==
            IF "none" \in DOMAIN filter
            THEN \A component \in filter["none"] : component \notin DOMAIN o ELSE TRUE
        hasTags ==
            IF "tags" \in DOMAIN filter
            THEN \A tag \in filter["tags"] : tag \in DOMAIN o ELSE TRUE
    IN  hasComponents /\ passesCondition /\ lacksComponents /\ hasTags
Matches(filter, o) ==
    LET hasComponents ==
            IF "has" \in DOMAIN filter
            THEN \A component \in filter["has"] : component \in DOMAIN o ELSE TRUE
        passesCondition ==
            IF "where" \in DOMAIN filter THEN WhereHolds(filter["where"], o) ELSE TRUE
        lacksComponents ==
            IF "none" \in DOMAIN filter
            THEN \A component \in filter["none"] : component \notin DOMAIN o ELSE TRUE
        hasTags ==
            IF "tags" \in DOMAIN filter
            THEN \A tag \in filter["tags"] : Truthy(o, tag) ELSE TRUE
    IN  hasComponents /\ passesCondition /\ lacksComponents /\ hasTags

----------------------------------------------------------------------------
(* Callbacks *)

\* One invocation: the channel or hook list it came through, the callback,
\* the entity of the payload, and for 'queryChanged' the three lists of it
Call(via, cb, e) == [via |-> via, cb |-> cb, entity |-> e, data |-> <<>>]
\* An invocation of a function of the user while the store is store: data
\* records what the function can observe, whether e is in the store then
CallAt(via, cb, e, store) ==
    [via |-> via, cb |-> cb, entity |-> e, data |-> <<e \in Range(store)>>]
QueryCall(cb, matched, addedEntities, removedEntities) ==
    [via |-> "queryChanged", cb |-> cb, entity |-> 0,
     data |-> <<matched, addedEntities, removedEntities>>]

\* Array.prototype.filter
RECURSIVE FilterSeq(_, _)
FilterSeq(s, keep) ==
    IF s = <<>> THEN <<>>
    ELSE (IF Head(s) \in keep THEN <<Head(s)>> ELSE <<>>) \o FilterSeq(Tail(s), keep)

\* match() of a query: this.entities.filter(...) over the store as it is when
\* match() runs
MatchIn(filter, store, heap) ==
    FilterSeq(store, {e \in Range(store) : Matches(filter, heap[e])})

\* A registered callback is a function value: a function of the user (fn is
\* its name), or a closure that query() or one of its addHook / removeHook
\* built around a user hook fn and the query object q it belongs to.
UserFn(cb) == [kind |-> "user", fn |-> cb, q |-> 0]
\* ecs.ts: (entity) => { const m = match(); if (m.includes(entity)) {...} }
AddHookFn(q, hook) == [kind |-> "addHook", fn |-> hook, q |-> q]
\* ecs.ts: ({ entity }) => { hook(entity); matchedEntities.splice(...) }
RemoveHookFn(q, hook) == [kind |-> "removeHook", fn |-> hook, q |-> q]

\* Runner.ts: (entity) => { const m = match(); if (m.includes(entity)) matchedEntities.push(entity) }
TrackFn(q) == [kind |-> "r.track", fn |-> "", q |-> q]
\* Runner.ts: (entity) => { match().splice(matchedEntities.indexOf(entity), 1) }
UntrackFn(q) == [kind |-> "r.untrack", fn |-> "", q |-> q]
\* Runner.ts: ({ entity }) => { if (match().includes(entity)) hook(entity) }
RunnerAddHookFn(q, hook) == [kind |-> "r.addHook", fn |-> hook, q |-> q]
RunnerRemoveHookFn(q, hook) == [kind |-> "r.removeHook", fn |-> hook, q |-> q]

\* What a restored snapshot holds where a function was: null.  JSON has no
\* functions, and JSON.stringify writes a function in an array as null.
NullFn == [kind |-> "null", fn |-> "", q |-> 0]
\* the same in a list of systems or update hooks, which the model names
NullName == "null"

\* Calling null is a TypeError: it ends the forEach and the handler around
\* it.  The model records it as the last of the handler's calls.
TypeError(e) == [via |-> "TypeError", cb |-> "", entity |-> e, data |-> <<>>]
Faulted(cs) == cs # <<>> /\ cs[Len(cs)].via = "TypeError"

\* One call of a registered callback with entity e, while the store is
\* store and the heap is heap: the user functions it invokes and the query
\* objects after it
InvokeOneUnfiltered(cb, via, e, qs, store, heap) ==
    CASE cb.kind = "user" ->
            [calls |-> <<Call(via, cb.fn, e)>>, qs |-> qs]
      [] cb.kind = "addHook" ->
            [calls |-> <<Call("query.addHook", cb.fn, e)>>,
             qs |-> [qs EXCEPT ![cb.q].matched = Append(@, e)]]
      [] cb.kind = "removeHook" ->
            [calls |-> <<Call("query.removeHook", cb.fn, e)>>,
             qs |-> [qs EXCEPT ![cb.q].matched = Splice1(@, IndexOf(@, e))]]
InvokeOne(cb, via, e, qs, store, heap) ==
    CASE cb.kind = "user" ->
            [calls |-> <<CallAt(via, cb.fn, e, store)>>, qs |-> qs]
      [] cb.kind = "addHook" ->
            LET m == MatchIn(qs[cb.q].filter, store, heap)
            IN  IF e \in Range(m)
                THEN [calls |-> <<Call("query.addHook", cb.fn, e)>>,
                      qs |-> [qs EXCEPT ![cb.q].matched = Append(@, e)]]
                ELSE [calls |-> <<>>, qs |-> qs]
      [] cb.kind = "removeHook" ->
            [calls |-> <<Call("query.removeHook", cb.fn, e)>>,
             qs |-> [qs EXCEPT ![cb.q].matched = Splice1(@, IndexOf(@, e))]]
      [] cb.kind = "r.track" ->
            IF e \in Range(MatchIn(qs[cb.q].filter, store, heap))
            THEN [calls |-> <<>>, qs |-> [qs EXCEPT ![cb.q].matched = Append(@, e)]]
            ELSE [calls |-> <<>>, qs |-> qs]
      [] cb.kind = "r.untrack" ->
            \* the splice acts on the fresh array that match() returned
            [calls |-> <<>>, qs |-> qs]
      [] cb.kind = "r.addHook" ->
            IF e \in Range(MatchIn(qs[cb.q].filter, store, heap))
            THEN [calls |-> <<Call("query.addHook", cb.fn, e)>>, qs |-> qs]
            ELSE [calls |-> <<>>, qs |-> qs]
      [] cb.kind = "r.removeHook" ->
            IF e \in Range(MatchIn(qs[cb.q].filter, store, heap))
            THEN [calls |-> <<Call("query.removeHook", cb.fn, e)>>, qs |-> qs]
            ELSE [calls |-> <<>>, qs |-> qs]
      [] cb.kind = "null" ->
            [calls |-> <<TypeError(e)>>, qs |-> qs]

\* forEach over a list of registered callbacks, in order
RECURSIVE InvokeAll(_, _, _, _, _, _)
\* the calls cs of the callbacks called so far, then what the rest did
Joined(cs, rest) == [calls |-> cs \o rest.calls, qs |-> rest.qs]
\* after the call of one callback: an exception ends the forEach, else the
\* callbacks cbs that follow it are called
InvokeRest(one, cbs, via, e, store, heap) ==
    IF Faulted(one.calls) THEN one
    ELSE Joined(one.calls, InvokeAll(cbs, via, e, one.qs, store, heap))
InvokeAll(cbs, via, e, qs, store, heap) ==
    IF cbs = <<>> THEN [calls |-> <<>>, qs |-> qs]
    ELSE InvokeRest(InvokeOne(Head(cbs), via, e, qs, store, heap),
                    Tail(cbs), via, e, store, heap)

\* emitQueryEvents(matchedEntities)
EmitQueryEvents(listeners, store, matched) ==
    LET addedEntities == FilterSeq(matched, Range(matched) \ Range(store))
        removedEntities == FilterSeq(store, Range(store) \ Range(matched))
    IN  IF (Len(addedEntities) > 0 \/ Len(removedEntities) > 0)
           /\ "queryChanged" \in DOMAIN listeners
        THEN [i \in 1..Len(listeners["queryChanged"]) |->
                QueryCall(listeners["queryChanged"][i].fn, matched,
                          addedEntities, removedEntities)]
        ELSE <<>>

\* emitEvent(eventName, eventData): the listeners of the name, in order
EmitEventFirstOnly(listeners, name, e, qs, store, heap) ==
    IF name \in DOMAIN listeners
    THEN InvokeAll(<<listeners[name][1]>>, name, e, qs, store, heap)
    ELSE [calls |-> <<>>, qs |-> qs]
EmitEvent(listeners, name, e, qs, store, heap) ==
    IF name \in DOMAIN listeners
    THEN InvokeAll(listeners[name], name, e, qs, store, heap)
    ELSE [calls |-> <<>>, qs |-> qs]

\* hooks.forEach((hook) => hook(entity))
RunHooksFirstOnly(hooks, via, e, qs, store, heap) ==
    InvokeAll(IF hooks = <<>> THEN hooks ELSE <<hooks[1]>>, via, e, qs, store, heap)
RunHooks(hooks, via, e, qs, store, heap) == InvokeAll(hooks, via, e, qs, store, heap)

\* if (onAdd) onAdd({ entity, components })
Optional(via, cb, e) == IF cb = "none" THEN <<>> ELSE <<Call(via, cb, e)>>

\* subscribeToEvent's table update
Subscribed(listeners, name, cb) ==
    IF name \in DOMAIN listeners
    THEN [listeners EXCEPT ![name] = Append(@, cb)]
    ELSE [n \in (DOMAIN listeners) \cup {name} |->
            IF n = name THEN <<cb>> ELSE listeners[n]]

\* how many callbacks of a list a caller registered (every query of the
\* Runner.ts World adds one closure of its own to each hook list)
ByCaller(s) ==
    Cardinality({i \in DOMAIN s : s[i].kind \notin {"r.track", "r.untrack"}})

NumSubs ==
    ByCaller(onEntityAddedHooks) + ByCaller(onEntityRemovedHooks)
    + Cardinality(UNION {{<<n, i>> : i \in DOMAIN eventListeners[n]} :
                            n \in DOMAIN eventListeners})

----------------------------------------------------------------------------
(* Numeric ids *)

\* getKeyByValue: the first key, in insertion order, whose value is the
\* entity.  Keys are inserted in increasing order (genID), so the first
\* key is the least one.  NoRef stands for undefined.
GetKeyByValue(map, e) ==
    IF \E id \in DOMAIN map : map[id] = e
    THEN CHOOSE id \in DOMAIN map :
            map[id] = e /\ \A j \in DOMAIN map : map[j] = e => id <= j
    ELSE 0

\* Map.prototype.delete
MapDelete(map, id) == [k \in (DOMAIN map) \ {id} |-> map[k]]

\* Map.prototype.set
MapSet(map, id, v) == [k \in (DOMAIN map) \cup {id} |-> IF k = id THEN v ELSE map[k]]

\* byID(id)
byID(id) == IF id \in DOMAIN entityById THEN entityById[id] ELSE NoRef

\* const id = this.nextId++
ReuseFreedId(map, n) ==
    IF \E i \in 1..(n - 1) : i \notin DOMAIN map
    THEN CHOOSE i \in 1..(n - 1) : i \notin DOMAIN map
    ELSE n
FreshId(map, n) == n

----------------------------------------------------------------------------
(* The last operation: its name, the object, the name and the literal it was
   given, the reference or number it returned (q: the object a query
   returned), and whether it threw *)

NoQuery == [filter |-> <<>>, entities |-> <<>>, singleton |-> NoRef]

Op(op, arg, name, bag, ret, threw) ==
    [op |-> op, arg |-> arg, name |-> name, bag |-> bag, ret |-> ret,
     threw |-> threw, q |-> NoQuery]

QueryOp(op, filter, matched, singleton) ==
    [op |-> op, arg |-> NoRef, name |-> "", bag |-> <<>>, ret |-> NoRef,
     threw |-> FALSE,
     q |-> [filter |-> filter, entities |-> matched, singleton |-> singleton]]

----------------------------------------------------------------------------
(* The state after construction: new World([]) *)

Init ==
    /\ objs = <<>>
    /\ entities = <<>>
    /\ archetypes = <<>>
    /\ onEntityAddedHooks = <<>>
    /\ onEntityRemovedHooks = <<>>
    /\ eventListeners = <<>>
    /\ entityById = <<>>
    /\ nextId = 1
    /\ genLog = <<>>
    /\ entityCreationQueue = <<>>
    /\ systems = <<>>
    /\ onUpdateHooks = <<>>
    /\ queries = <<>>
    /\ mwEntities = <<>>
    /\ cachedQueries = <<>>
    /\ mwEventListeners = <<>>
    /\ middlewares = <<>>
    /\ shortCircuited = FALSE
    /\ colEntities = <<>>
    /\ colListeners = <<>>
    /\ added = <<>>
    /\ removed = <<>>
    /\ runnerSystems = <<>>
    /\ runnerLog = <<>>
    /\ runs = <<>>
    /\ microtasks = <<>>
    /\ trace = <<>>
    /\ observers = <<>>
    /\ proxies = <<>>
    /\ observeLog = <<>>
    /\ interval = Undefined
    /\ timers = {}
    /\ nextTimer = 1
    /\ drainPc = [active |-> FALSE, dt |-> 0, iterations |-> 0]
    /\ calls = <<>>
    /\ last = Op("new", NoRef, "", <<>>, NoRef, FALSE)

----------------------------------------------------------------------------
(* Entity store: ecs.ts (Runner.ts holds the same code as spawn/destroy) *)

\* createEntity(components, onAdd?).  r is the caller's object when it is an
\* object the model knows (NoRef for a literal), c its content.
\* The body of createEntity on a world whose heap, store and query objects
\* are the given ones: what they are afterwards, the new entity and the
\* user functions invoked, in order.
Created(entity, heap2, store2, onAdd, ev, hk) ==
    [entity |-> entity, objs |-> heap2, entities |-> store2, queries |-> hk.qs,
     calls |-> Optional("onAdd", onAdd, entity) \o ev.calls \o hk.calls]
\* after emitEvent('entityAdded', ...) did ev: the entity-added hooks, unless
\* a listener threw
Hooked(entity, heap2, store2, onAdd, ev) ==
    Created(entity, heap2, store2, onAdd, ev,
            IF Faulted(ev.calls) THEN [calls |-> <<>>, qs |-> ev.qs]
            ELSE RunHooks(onEntityAddedHooks, "addedHook", entity, ev.qs, store2, heap2))
\* after the push of the entity: the listeners of 'entityAdded'
Pushed(entity, heap2, store2, qs, onAdd) ==
    Hooked(entity, heap2, store2, onAdd,
           EmitEvent(eventListeners, "entityAdded", entity, qs, store2, heap2))
Create(heap, store, qs, r, c, onAdd) ==
    Pushed(NewObject(heap, r), Store(heap, NewObject(heap, r), c),
           Append(store, NewObject(heap, r)), qs, onAdd)

createEntity(r, c, onAdd) ==
    /\ Len(objs) < MaxObjs
    /\ \E w \in {Create(objs, entities, queries, r, c, onAdd)} :
           /\ objs' = w.objs
           /\ entities' = w.entities
           /\ queries' = w.queries
           /\ calls' = w.calls
           /\ last' = Op("createEntity", r, "", c,
                         IF Faulted(w.calls) THEN NoRef ELSE w.entity, Faulted(w.calls))
    /\ UNCHANGED <<notEcs, tick, entityCreationQueue, archetypes, onEntityAddedHooks, onEntityRemovedHooks,
                   eventListeners, entityById, nextId, genLog>>

\* const archetype = this.archetypes.get(name); NoRef is undefined
GetOrFirstArchetype(map, name) ==
    IF name \in DOMAIN map THEN map[name]
    ELSE IF DOMAIN map # {} THEN map[CHOOSE n \in DOMAIN map : TRUE]
    ELSE NoRef
GetArchetype(map, name) == IF name \in DOMAIN map THEN map[name] ELSE NoRef

\* createEntityFromArchetype(archetypeName, newState)
createEntityFromArchetype(name, newState) ==
    LET archetype == GetArchetype(archetypes, name)
    IN  IF archetype = NoRef
        THEN \* throw new Error(`Archetype "${archetypeName}" not found.`)
             /\ calls' = <<>>
             /\ last' = Op("createEntityFromArchetype", NoRef, name, newState,
                           NoRef, TRUE)
             /\ UNCHANGED <<notEcs, tick, entityCreationQueue, queries, objs, entities, archetypes, onEntityAddedHooks,
                            onEntityRemovedHooks, eventListeners, entityById, nextId, genLog>>
        ELSE /\ Len(objs) < MaxObjs
             /\ LET entity == Len(objs) + 1
                    heap == Append(objs, Spread2(objs[archetype], newState))
                    store == Append(entities, entity)
                    ev == EmitEvent(eventListeners, "entityAdded", entity,
                                    queries, store, heap)
                    hk == RunHooks(onEntityAddedHooks, "addedHook", entity,
                                   ev.qs, store, heap)
                IN  /\ objs' = heap
                    /\ entities' = store
                    /\ queries' = hk.qs
                    /\ calls' = ev.calls \o hk.calls
                    /\ last' = Op("createEntityFromArchetype", NoRef, name,
                                  newState, entity, FALSE)
             /\ UNCHANGED <<notEcs, tick, entityCreationQueue, archetypes, onEntityAddedHooks, onEntityRemovedHooks,
                            eventListeners, entityById, nextId, genLog>>

\* registerArchetype(name, archetype): the map keeps the caller's object
registerArchetype(name, c) ==
    /\ Len(objs) < MaxObjs
    /\ objs' = Append(objs, c)
    /\ archetypes' = MapSet(archetypes, name, Len(objs) + 1)
    /\ calls' = <<>>
    /\ last' = Op("registerArchetype", Len(objs) + 1, name, c, NoRef, FALSE)
    /\ UNCHANGED <<notEcs, tick, entityCreationQueue, queries, entities, onEntityAddedHooks, onEntityRemovedHooks,
                   eventListeners, entityById, nextId, genLog>>

\* const id = getKeyByValue(entityById, entity);
\* if (id !== undefined) entityById.delete(id)
DropId(map, e) ==
    LET id == GetKeyByValue(map, e)
    IN  IF id # 0 THEN MapDelete(map, id) ELSE map

\* if (index > -1)
Unguarded(s, e) == TRUE
InStore(s, e) == IndexOf(s, e) > 0

\* removeEntity(entity, onRemove?)
removeEntity(e, onRemove) ==
    /\ IF InStore(entities, e)
       THEN LET store == Splice1(entities, IndexOf(entities, e))
                 ev == EmitEvent(eventListeners, "entityRemoved", e,
                                 queries, store, objs)
                 hk == RunHooks(onEntityRemovedHooks, "removedHook", e,
                                ev.qs, store, objs)
            IN  /\ entities' = store
                /\ entityById' = DropId(entityById, e)
                /\ queries' = hk.qs
                /\ calls' = Optional("onRemove", onRemove, e) \o ev.calls \o hk.calls
       ELSE /\ calls' = <<>>
            /\ UNCHANGED <<entities, entityById, queries>>
    /\ last' = Op("removeEntity", e, "", <<>>, NoRef, FALSE)
    /\ UNCHANGED <<notEcs, tick, entityCreationQueue, objs, archetypes, onEntityAddedHooks, onEntityRemovedHooks,
                   eventListeners, nextId, genLog>>

\* genID(entity)
genID(e) ==
    /\ nextId <= MaxIds
    /\ LET id == FreshId(entityById, nextId)
       IN  /\ entityById' = MapSet(entityById, id, e)
           /\ genLog' = Append(genLog, <<id, e>>)
           /\ last' = Op("genID", e, "", <<>>, id, FALSE)
    /\ nextId' = nextId + 1
    /\ calls' = <<>>
    /\ UNCHANGED <<notEcs, tick, entityCreationQueue, queries, objs, entities, archetypes, onEntityAddedHooks,
                   onEntityRemovedHooks, eventListeners>>

\* subscribeToEvent(eventName, callback)
subscribeToEvent(name, cb) ==
    /\ NumSubs < MaxSubs
    /\ eventListeners' = Subscribed(eventListeners, name, UserFn(cb))
    /\ calls' = <<>>
    /\ last' = Op("subscribeToEvent", NoRef, name, <<>>, NoRef, FALSE)
    /\ UNCHANGED <<notEcs, tick, entityCreationQueue, queries, objs, entities, archetypes, onEntityAddedHooks,
                   onEntityRemovedHooks, entityById, nextId, genLog>>

\* emitEvent(eventName, eventData), called by a user of the world
emitEvent(name, data) ==
    /\ LET ev == EmitEvent(eventListeners, name, data, queries, entities, objs)
       IN  /\ calls' = ev.calls
           /\ queries' = ev.qs
    /\ last' = Op("emitEvent", data, name, <<>>, NoRef, FALSE)
    /\ UNCHANGED <<notEcs, tick, entityCreationQueue, objs, entities, archetypes,
                   onEntityAddedHooks, onEntityRemovedHooks, eventListeners,
                   entityById, nextId, genLog>>

\* addOnEntityAddedHook(hook)
addOnEntityAddedHook(cb) ==
    /\ NumSubs < MaxSubs
    /\ onEntityAddedHooks' = Append(onEntityAddedHooks, UserFn(cb))
    /\ calls' = <<>>
    /\ last' = Op("addOnEntityAddedHook", NoRef, "", <<>>, NoRef, FALSE)
    /\ UNCHANGED <<notEcs, tick, entityCreationQueue, queries, objs, entities, archetypes, onEntityRemovedHooks,
                   eventListeners, entityById, nextId, genLog>>

\* addOnEntityRemovedHook(hook)
addOnEntityRemovedHook(cb) ==
    /\ NumSubs < MaxSubs
    /\ onEntityRemovedHooks' = Append(onEntityRemovedHooks, UserFn(cb))
    /\ calls' = <<>>
    /\ last' = Op("addOnEntityRemovedHook", NoRef, "", <<>>, NoRef, FALSE)
    /\ UNCHANGED <<notEcs, tick, entityCreationQueue, queries, objs, entities, archetypes, onEntityAddedHooks,
                   eventListeners, entityById, nextId, genLog>>

\* entity[componentKey] = componentValue
SetKey(o, k, v) == [x \in (DOMAIN o) \cup {k} |-> IF x = k THEN v ELSE o[x]]

\* delete entity[componentKey]
DeleteKey(o, k) == [x \in (DOMAIN o) \ {k} |-> o[x]]

\* addComponent(entity, componentKey, componentValue)
addComponent(e, k, v) ==
    /\ LET heap == [objs EXCEPT ![e] = SetKey(@, k, v)]
           ev == EmitEvent(eventListeners, "state-changed", e, queries, entities, heap)
       IN  /\ objs' = heap
           /\ queries' = ev.qs
           /\ calls' = ev.calls \o EmitQueryEvents(eventListeners, entities, <<e>>)
    /\ last' = Op("addComponent", e, k, <<>>, NoRef, FALSE)
    /\ UNCHANGED <<notEcs, tick, entityCreationQueue, entities, archetypes, onEntityAddedHooks, onEntityRemovedHooks,
                   eventListeners, entityById, nextId, genLog>>

\* removeComponent(entity, componentKey)
removeComponent(e, k) ==
    /\ LET heap == [objs EXCEPT ![e] = DeleteKey(@, k)]
           ev == EmitEvent(eventListeners, "state-changed", e, queries, entities, heap)
       IN  /\ objs' = heap
           /\ queries' = ev.qs
           /\ calls' = ev.calls \o EmitQueryEvents(eventListeners, entities, <<e>>)
    /\ last' = Op("removeComponent", e, k, <<>>, NoRef, FALSE)
    /\ UNCHANGED <<notEcs, tick, entityCreationQueue, entities, archetypes, onEntityAddedHooks, onEntityRemovedHooks,
                   eventListeners, entityById, nextId, genLog>>

----------------------------------------------------------------------------
(* Query engine: ecs.ts *)

\* match(): this.entities.filter(...)
Match(filter) == MatchIn(filter, entities, objs)

\* matchedEntities.length === 1 ? matchedEntities[0] : null
SingletonFirst(m) == IF Len(m) >= 1 THEN m[1] ELSE NoRef
Singleton(m) == IF Len(m) = 1 THEN m[1] ELSE NoRef

\* query(filter).  kept: the caller keeps the returned object, so that its
\* matchedEntities array and its addHook / removeHook stay reachable.
query(filter, kept) ==
    /\ kept => Len(queries) < MaxQueries
    /\ LET matchedEntities == Match(filter)
       IN  /\ calls' = EmitQueryEvents(eventListeners, entities, matchedEntities)
           /\ last' = QueryOp("query", filter, matchedEntities, Singleton(matchedEntities))
           /\ queries' = IF kept
                         THEN Append(queries, [filter |-> filter,
                                               matched |-> matchedEntities])
                         ELSE queries
    /\ UNCHANGED <<notEcs, tick, entityCreationQueue, objs, entities, archetypes, onEntityAddedHooks,
                   onEntityRemovedHooks, eventListeners, entityById, nextId, genLog>>

\* q.addHook(hook): the hook runs for every entity of matchedEntities, then
\* a closure over the query joins the world's entity-added hooks
addHook(q, hook) ==
    /\ NumSubs < MaxSubs
    /\ onEntityAddedHooks' = Append(onEntityAddedHooks, AddHookFn(q, hook))
    /\ calls' = [i \in 1..Len(queries[q].matched) |->
                    Call("query.addHook", hook, queries[q].matched[i])]
    /\ last' = Op("addHook", q, hook, <<>>, NoRef, FALSE)
    /\ UNCHANGED <<notEcs, tick, entityCreationQueue, queries, objs, entities,
                   archetypes, onEntityRemovedHooks, eventListeners, entityById,
                   nextId, genLog>>

\* q.removeHook(hook): a closure over the query subscribes to 'entityRemoved'
removeHook(q, hook) ==
    /\ NumSubs < MaxSubs
    /\ eventListeners' = Subscribed(eventListeners, "entityRemoved", RemoveHookFn(q, hook))
    /\ calls' = <<>>
    /\ last' = Op("removeHook", q, hook, <<>>, NoRef, FALSE)
    /\ UNCHANGED <<notEcs, tick, entityCreationQueue, queries, objs, entities,
                   archetypes, onEntityAddedHooks, onEntityRemovedHooks, entityById,
                   nextId, genLog>>

----------------------------------------------------------------------------
(* Query engine of the World of Runner.ts.  Its spawn and destroy are the
   code of createEntity and removeEntity. *)

\* query(filter): every evaluation adds a closure to each hook list
runnerQuery(filter) ==
    /\ Len(queries) < MaxQueries
    /\ LET matchedEntities == Match(filter)
           q == Len(queries) + 1
       IN  /\ queries' = Append(queries, [filter |-> filter, matched |-> matchedEntities])
           /\ onEntityAddedHooks' = Append(onEntityAddedHooks, TrackFn(q))
           /\ onEntityRemovedHooks' = Append(onEntityRemovedHooks, UntrackFn(q))
           /\ calls' = EmitQueryEvents(eventListeners, entities, matchedEntities)
           /\ last' = QueryOp("Runner.query", filter, matchedEntities,
                              Singleton(matchedEntities))
    /\ UNCHANGED <<notEcs, tick, entityCreationQueue, objs, entities, archetypes,
                   eventListeners, entityById, nextId, genLog>>

\* q.addHook(hook)
runnerAddHook(q, hook) ==
    /\ NumSubs < MaxSubs
    /\ eventListeners' = Subscribed(eventListeners, "entityAdded", RunnerAddHookFn(q, hook))
    /\ calls' = <<>>
    /\ last' = Op("Runner.addHook", q, hook, <<>>, NoRef, FALSE)
    /\ UNCHANGED <<notEcs, tick, entityCreationQueue, queries, objs, entities,
                   archetypes, onEntityAddedHooks, onEntityRemovedHooks, entityById,
                   nextId, genLog>>

\* q.removeHook(hook)
runnerRemoveHook(q, hook) ==
    /\ NumSubs < MaxSubs
    /\ eventListeners' = Subscribed(eventListeners, "entityRemoved", RunnerRemoveHookFn(q, hook))
    /\ calls' = <<>>
    /\ last' = Op("Runner.removeHook", q, hook, <<>>, NoRef, FALSE)
    /\ UNCHANGED <<notEcs, tick, entityCreationQueue, queries, objs, entities,
                   archetypes, onEntityAddedHooks, onEntityRemovedHooks, entityById,
                   nextId, genLog>>

----------------------------------------------------------------------------
(* Systems and the deferred creation queue: ecs.ts *)

\* addSystem(system)
addSystem(system) ==
    /\ Len(systems) < MaxSubs
    /\ systems' = Append(systems, system)
    /\ calls' = <<>>
    /\ last' = Op("addSystem", NoRef, system, <<>>, NoRef, FALSE)
    /\ UNCHANGED <<notEcs, ecsStore, onUpdateHooks, objs>>

\* addOnUpdateHook(hook)
addOnUpdateHook(hook) ==
    /\ Len(onUpdateHooks) < MaxSubs
    /\ onUpdateHooks' = Append(onUpdateHooks, hook)
    /\ calls' = <<>>
    /\ last' = Op("addOnUpdateHook", NoRef, hook, <<>>, NoRef, FALSE)
    /\ UNCHANGED <<notEcs, ecsStore, systems, objs>>

\* addEntityToQueue(entityData): the queue keeps the specification; the
\* object returned is a copy that the world does not hold
addEntityToQueue(c) ==
    /\ Len(entityCreationQueue) < MaxQueue
    /\ entityCreationQueue' = Append(entityCreationQueue, c)
    /\ calls' = <<>>
    /\ last' = Op("addEntityToQueue", NoRef, "", c, NoRef, FALSE)
    /\ UNCHANGED <<notEcs, tick, queries, objs, entities, archetypes,
                   onEntityAddedHooks, onEntityRemovedHooks, eventListeners,
                   entityById, nextId, genLog>>

\* while (queue.length > 0) { const d = queue.shift(); if (d) createEntity(d) }
RECURSIVE Drain(_, _, _, _)
\* after createEntity(entityData) did w: the specifications still queued
DrainRest(w, queue) ==
    [Drain(queue, w.objs, w.entities, w.queries) EXCEPT !.calls = w.calls \o @]
Drain(queue, heap, store, qs) ==
    IF queue = <<>>
    THEN [objs |-> heap, entities |-> store, queries |-> qs, calls |-> <<>>]
    ELSE DrainRest(Create(heap, store, qs, NoRef, Head(queue), "none"), Tail(queue))

\* the named functions of a list called in order with dt, up to the first
\* that is not a function
RECURSIVE CallEach(_, _, _)
CallEach(via, names, dt) ==
    IF names = <<>> THEN <<>>
    ELSE IF Head(names) = NullName THEN <<TypeError(dt)>>
    ELSE <<Call(via, Head(names), dt)>> \o CallEach(via, Tail(names), dt)

\* runSystems(deltaTime) awaited by its caller, with systems that return no
\* promise: the update hooks, the systems in order, the drain
runSystems(dt) ==
    /\ Len(objs) + Len(entityCreationQueue) <= MaxObjs
    /\ \E hooked \in {CallEach("updateHook", onUpdateHooks, dt)} :
       \E ran \in {IF Faulted(hooked) THEN hooked
                   ELSE hooked \o CallEach("system", systems, dt)} :
       \E w \in {IF Faulted(ran)
                 THEN [objs |-> objs, entities |-> entities, queries |-> queries,
                       calls |-> <<>>]
                 ELSE Drain(entityCreationQueue, objs, entities, queries)} :
           /\ objs' = w.objs
           /\ entities' = w.entities
           /\ queries' = w.queries
           /\ calls' = ran \o w.calls
           /\ entityCreationQueue' = IF Faulted(ran) THEN entityCreationQueue ELSE <<>>
           /\ last' = Op("runSystems", dt, "", <<>>, NoRef, Faulted(ran \o w.calls))
    /\ UNCHANGED <<notEcs, tick, archetypes, onEntityAddedHooks, onEntityRemovedHooks,
                   eventListeners, entityById, nextId, genLog>>

----------------------------------------------------------------------------
(* The async body of run / runSystems, one step per turn of the event loop *)

MaxRuns == 2       \* activations of run / runSystems in one behaviour
MaxTrace == 12     \* events of the activations recorded in one behaviour

\* What a system function of the user does when it is called with dt:
\*   "move"       returns nothing
\*   "spawn"      world.addEntityToQueue({ health: dt }), returns nothing
\*   "look"       world.query({ has: ['health'] }), returns nothing
\*   "fetch"      returns a promise that is fulfilled in a later task
\*   "spawnFetch" world.addEntityToQueue({ health: dt }), then as "fetch"
\*   "boom"       throws
\*   "late"       returns a promise that is rejected in a later task
Mode(system) ==
    CASE system \in {"move", "spawn", "look"} -> "sync"
      [] system \in {"fetch", "spawnFetch"} -> "async"
      [] system = "boom" -> "throws"
      [] system = "late" -> "rejects"
Queues(system) == system \in {"spawn", "spawnFetch"}
Looks(system) == system = "look"

Event(r, ev, sys, seen) == [run |-> r, ev |-> ev, sys |-> sys, seen |-> seen]

\* the world as one activation finds it and leaves it
Snapshot ==
    [objs |-> objs, entities |-> entities, queries |-> queries,
     queue |-> entityCreationQueue, runs |-> runs, microtasks |-> microtasks,
     trace |-> trace, calls |-> <<>>]

\* await system(deltaTime), up to the point where the activation r suspends
\* or fails: the call of the i-th system
CallSystem(w, r, i) ==
    LET system == systems[i]
        dt == w.runs[r].dt
        queue2 == IF Queues(system) THEN Append(w.queue, [health |-> dt]) ELSE w.queue
        matched == MatchIn([has |-> {"health"}], w.entities, w.objs)
        did == <<Event(r, "start", system, <<>>)>>
                \o (IF Queues(system) THEN <<Event(r, "queued", system, <<>>)>> ELSE <<>>)
                \o (IF Looks(system) THEN <<Event(r, "query", system, matched)>> ELSE <<>>)
        calls2 == w.calls \o <<Call("system", system, dt)>>
                    \o (IF Looks(system)
                        THEN EmitQueryEvents(eventListeners, w.entities, matched)
                        ELSE <<>>)
        w2 == [w EXCEPT !.queue = queue2, !.calls = calls2]
    IN  CASE Mode(system) = "sync" ->
                [w2 EXCEPT !.trace = @ \o did \o <<Event(r, "end", system, <<>>)>>,
                           !.runs[r] = [@ EXCEPT !.at = i, !.promise = "fulfilled"],
                           !.microtasks = Append(@, r)]
          [] Mode(system) = "throws" ->
                [w2 EXCEPT !.trace = @ \o did \o <<Event(r, "failed", system, <<>>),
                                                   Event(r, "rejected", "", <<>>)>>,
                           !.runs[r] = [@ EXCEPT !.at = i, !.state = "rejected"]]
          [] OTHER ->
                [w2 EXCEPT !.trace = @ \o did,
                           !.runs[r] = [@ EXCEPT !.at = i, !.promise = "pending"]]

\* after the for loop: the drain of the deferred queue, and the end of the
\* activation (its promise is fulfilled)
\* the activation r after the drain did d: its promise is fulfilled
Drained(w, r, i, d) ==
    [w EXCEPT !.objs = d.objs, !.entities = d.entities, !.queries = d.queries,
              !.queue = <<>>,
              !.calls = @ \o d.calls,
              !.trace = Append(@, Event(r, "drain", "",
                            SubSeq(d.entities, Len(w.entities) + 1, Len(d.entities)))),
              !.runs[r] = [@ EXCEPT !.at = i, !.state = "done"]]
FinishFirstOnly(w, r, i) ==
    Drained(w, r, i, Drain(IF w.queue = <<>> THEN <<>> ELSE <<Head(w.queue)>>,
                           w.objs, w.entities, w.queries))
Finish(w, r, i) ==
    Drained(w, r, i, Drain(w.queue, w.objs, w.entities, w.queries))

\* the rest of the body from the i-th iteration of the for loop on: the next
\* system when the list, as it is now, has one, else the drain and the end
AdvanceSkipping(w, r, i) ==
    IF i + 1 <= Len(systems) THEN CallSystem(w, r, i + 1) ELSE Finish(w, r, i)
Advance(w, r, i) ==
    IF i <= Len(systems) THEN CallSystem(w, r, i) ELSE Finish(w, r, i)

\* whether the awaited value lets the body go on (a rejection is thrown
\* from the await and ends the body)
ContinuesAlways(run) == TRUE
Continues(run) == run.promise # "rejected"

\* the step never outgrows the heap of the model
Room(i) ==
    /\ Len(objs) + Len(entityCreationQueue) <= MaxObjs
    /\ (i <= Len(systems) /\ Queues(systems[i]))
            => Len(objs) + Len(entityCreationQueue) < MaxObjs

Settled(w) ==
    /\ objs' = w.objs
    /\ entities' = w.entities
    /\ queries' = w.queries
    /\ entityCreationQueue' = w.queue
    /\ runs' = w.runs
    /\ microtasks' = w.microtasks
    /\ trace' = w.trace
    /\ calls' = w.calls
    /\ UNCHANGED <<notAsync, tick, archetypes, onEntityAddedHooks, onEntityRemovedHooks,
                   eventListeners, entityById, nextId, genLog>>

\* WorldRunner.loop on a firing of its interval timer: world.run(deltaTime)
\* is called and its promise dropped.  The body runs up to its first await.
\* A timer callback is a task: it starts when no microtask is left.
loop(dt) ==
    /\ microtasks = <<>>
    /\ Len(runs) < MaxRuns
    /\ Len(trace) < MaxTrace
    /\ Room(1)
    /\ LET r == Len(runs) + 1
           hooked == [Snapshot EXCEPT
                        !.runs = Append(@, [dt |-> dt, at |-> 0, state |-> "running",
                                            promise |-> "none"]),
                        !.calls = [i \in DOMAIN onUpdateHooks |->
                                        Call("updateHook", onUpdateHooks[i], dt)],
                        !.trace = @ \o [i \in DOMAIN onUpdateHooks |->
                                        Event(r, "hook", onUpdateHooks[i], <<>>)]]
       IN  Settled(Advance(hooked, r, 1))
    /\ last' = Op("run", dt, "", <<>>, Len(runs) + 1, FALSE)

\* the promise that an asynchronous system returned settles, in a later task
settle(r) ==
    /\ microtasks = <<>>
    /\ Len(trace) < MaxTrace
    /\ runs[r].state = "running"
    /\ runs[r].promise = "pending"
    /\ LET system == systems[runs[r].at]
           rejects == Mode(system) = "rejects"
       IN  /\ runs' = [runs EXCEPT ![r].promise =
                            IF rejects THEN "rejected" ELSE "fulfilled"]
           /\ trace' = Append(trace, Event(r, IF rejects THEN "failed" ELSE "end",
                                           system, <<>>))
    /\ microtasks' = Append(microtasks, r)
    /\ calls' = <<>>
    /\ last' = Op("settle", r, "", <<>>, NoRef, FALSE)
    /\ UNCHANGED <<objs, notAsync, ecsVars>>

\* the oldest microtask: the activation continues after its await
resume ==
    /\ microtasks # <<>>
    /\ LET r == Head(microtasks)
           w == [Snapshot EXCEPT !.microtasks = Tail(@)]
       IN  /\ Room(runs[r].at + 1)
           /\ IF Continues(runs[r])
              THEN Settled(Advance(w, r, runs[r].at + 1))
              ELSE Settled([w EXCEPT !.runs[r].state = "rejected",
                                     !.trace = Append(@, Event(r, "rejected", "", <<>>))])
           /\ last' = Op("resume", r, "", <<>>, NoRef, FALSE)

----------------------------------------------------------------------------
(* Snapshots: toJSON and fromJSON *)

MaxHeap == 4

\* Component values by key: health and tag hold numbers, alive a boolean,
\* name a string, pos a nested object of numbers.  NaN stands for the
\* number NaN and Null for null, which no number of the model equals.
NaN == -3
Null == -2

\* JSON.parse(JSON.stringify(n)) for a number: NaN (and the infinities) are
\* written as null
JsonNumber(n) == IF n = NaN THEN Null ELSE n

\* JSON.parse(JSON.stringify(v)) for the value under a key
JsonValue(key, v) ==
    CASE key \in {"health", "tag"} -> JsonNumber(v)
      [] key = "pos" -> [k \in DOMAIN v |-> JsonNumber(v[k])]
      [] OTHER -> v

\* JSON.parse(JSON.stringify(o)) for an entity or a template
JsonObject(o) == [k \in DOMAIN o |-> JsonValue(k, o[k])]

\* JSON.parse(toJSON()): what the text that toJSON returns parses to.
\* Every function in the five callback lists is written as null; the two
\* maps are written as lists of [key, value] entries.  parses, archetypes
\* and eventListeners being present is what a caller can break.
ToJSON ==
    [parses |-> TRUE,
     entities |-> [i \in DOMAIN entities |-> JsonObject(objs[entities[i]])],
     systems |-> [i \in DOMAIN systems |-> NullName],
     hasArchetypes |-> TRUE,
     archetypes |-> [n \in DOMAIN archetypes |-> JsonObject(objs[archetypes[n]])],
     hasEventListeners |-> TRUE,
     eventListeners |-> [n \in DOMAIN eventListeners |->
                            [i \in DOMAIN eventListeners[n] |-> NullFn]],
     onUpdateHooks |-> [i \in DOMAIN onUpdateHooks |-> NullName],
     onEntityAddedHooks |-> [i \in DOMAIN onEntityAddedHooks |-> NullFn],
     onEntityRemovedHooks |-> [i \in DOMAIN onEntityRemovedHooks |-> NullFn]]

\* the payloads given to fromJSON: the snapshot of the world as it is, the
\* same without its archetypes or its eventListeners, and text that is no JSON
PayloadKinds == {"roundTrip", "noArchetypes", "noEventListeners", "garbage"}
Payload(kind) ==
    [ToJSON EXCEPT !.hasArchetypes = kind # "noArchetypes",
                   !.hasEventListeners = kind # "noEventListeners",
                   !.parses = kind # "garbage"]

RECURSIVE SeqOf(_)
SeqOf(S) ==
    IF S = {} THEN <<>>
    ELSE LET x == CHOOSE y \in S : TRUE IN <<x>> \o SeqOf(S \ {x})

\* fromJSON(json), statement by statement: a statement that throws leaves
\* the assignments before it in place
fromJSON(kind) ==
    LET Njson == Payload(kind)
        names == SeqOf(DOMAIN Njson.archetypes)
        heap2 == objs \o Njson.entities
        heap3 == heap2 \o [i \in DOMAIN names |-> Njson.archetypes[names[i]]]
        restored == [i \in DOMAIN Njson.entities |-> Len(objs) + i]
        table == [n \in DOMAIN Njson.archetypes |->
                    Len(heap2) + (CHOOSE i \in DOMAIN names : names[i] = n)]
        merged == [n \in (DOMAIN eventListeners) \cup (DOMAIN Njson.eventListeners) |->
                    IF n \in DOMAIN Njson.eventListeners
                    THEN Njson.eventListeners[n] ELSE eventListeners[n]]
    IN  /\ Len(objs) + Len(Njson.entities) + Len(names) <= MaxHeap
        /\ calls' = <<>>
        /\ last' = Op("fromJSON", NoRef, kind, <<>>, NoRef,
                      ~(Njson.parses /\ Njson.hasArchetypes /\ Njson.hasEventListeners))
        /\ UNCHANGED <<notEcs, entityCreationQueue, queries, entityById, nextId, genLog>>
        /\ IF ~Njson.parses
           \* const Njson = JSON.parse(json) throws
           THEN UNCHANGED <<objs, entities, systems, archetypes, eventListeners,
                            onUpdateHooks, onEntityAddedHooks, onEntityRemovedHooks>>
           ELSE /\ entities' = restored
                /\ systems' = Njson.systems
                /\ IF ~Njson.hasArchetypes
                   \* for (... of Njson.archetypes) throws, after new Map()
                   THEN /\ objs' = heap2
                        /\ archetypes' = <<>>
                        /\ UNCHANGED <<eventListeners, onUpdateHooks,
                                       onEntityAddedHooks, onEntityRemovedHooks>>
                   ELSE /\ objs' = heap3
                        /\ archetypes' = table
                        /\ IF ~Njson.hasEventListeners
                           \* for (... of Njson.eventListeners) throws
                           THEN UNCHANGED <<eventListeners, onUpdateHooks,
                                            onEntityAddedHooks, onEntityRemovedHooks>>
                           ELSE /\ eventListeners' = merged
                                /\ onUpdateHooks' = Njson.onUpdateHooks
                                /\ onEntityAddedHooks' = Njson.onEntityAddedHooks
                                /\ onEntityRemovedHooks' = Njson.onEntityRemovedHooks

SnapLiterals ==
    {[health |-> 1, alive |-> TRUE, name |-> "orc", pos |-> [x |-> 0]],
     [health |-> NaN]}

NextSnap ==
    \/ \E c \in SnapLiterals : createEntity(NoRef, c, "none")
    \/ registerArchetype("basic", [health |-> 1, pos |-> [x |-> 1]])
    \/ addSystem("move")
    \/ addOnUpdateHook("onUpdate")
    \/ addOnEntityAddedHook("cb2")
    \/ subscribeToEvent("entityAdded", "cb1")
    \/ runSystems(1)
    \/ \E kind \in PayloadKinds : fromJSON(kind)

SpecSnap == Init /\ [][NextSnap]_vars

----------------------------------------------------------------------------
(* Creation and archetype instancing under every caller *)

OnAdds == {"none", "onAdd"}

Next ==
    \/ \E c \in Literals, cb \in OnAdds : createEntity(NoRef, c, cb)
    \/ \E r \in Refs : createEntity(r, objs[r], "none")
    \/ \E n \in ArchNames, c \in Literals : createEntityFromArchetype(n, c)
    \/ \E c \in Literals : registerArchetype("basic", c)
    \/ \E e \in Refs : removeEntity(e, "none")
    \/ subscribeToEvent("entityAdded", "cb1")
    \/ addOnEntityAddedHook("cb2")

Spec == Init /\ [][Next]_vars

(* Destruction and numeric ids under every caller *)

NextIds ==
    \/ createEntity(NoRef, <<>>, "none")
    \/ \E e \in {NoRef} \cup Refs : removeEntity(e, "onRemove")
    \/ \E e \in Refs : genID(e)
    \/ subscribeToEvent("entityRemoved", "cb1")
    \/ addOnEntityRemovedHook("cb2")

SpecIds == Init /\ [][NextIds]_vars

(* Queries under every caller *)

Clause(name, values) == {<<>>} \cup {[n \in {name} |-> v] : v \in values}
Join(f, g) == [n \in (DOMAIN f) \cup (DOMAIN g) |-> IF n \in DOMAIN f THEN f[n] ELSE g[n]]
Filters ==
    {Join(Join(h, n), Join(t, w)) :
        h \in Clause("has", {{"health"}, {"health", "tag"}}),
        n \in Clause("none", {{"tag"}}),
        t \in Clause("tags", {{"health"}}),
        w \in Clause("where", {"healthPositive"})}

NextQuery ==
    \/ \E c \in Literals : createEntity(NoRef, c, "none")
    \/ \E e \in Refs : removeEntity(e, "none")
    \/ \E f \in Filters : query(f, FALSE)
    \/ subscribeToEvent("queryChanged", "cb1")

SpecQuery == Init /\ [][NextQuery]_vars

(* Creation through every path, with query hooks and world hooks *)

HookFilters == {[has |-> {"health"}], [tags |-> {"tag"}]}
HookLiterals == {<<>>, [health |-> 1]}

NextAdd ==
    \/ \E c \in HookLiterals : createEntity(NoRef, c, "none")
    \/ registerArchetype("basic", <<>>)
    \/ \E c \in HookLiterals : createEntityFromArchetype("basic", c)
    \/ \E c \in HookLiterals : addEntityToQueue(c)
    \/ runSystems(1)
    \/ query([has |-> {"health"}], TRUE)
    \/ \E q \in DOMAIN queries : addHook(q, "onMatch")

SpecAdd == Init /\ [][NextAdd]_vars

(* Creation and destruction through every path, with world hooks *)

Hooks == {"h1", "h2"}

NextLife ==
    \/ createEntity(NoRef, <<>>, "none")
    \/ registerArchetype("basic", [health |-> 1])
    \/ createEntityFromArchetype("basic", <<>>)
    \/ addEntityToQueue(<<>>)
    \/ runSystems(1)
    \/ \E e \in Refs : removeEntity(e, "none")
    \/ \E h \in Hooks : addOnEntityAddedHook(h)
    \/ \E h \in Hooks : addOnEntityRemovedHook(h)

SpecLife == Init /\ [][NextLife]_vars

(* Ticks of the interval timer, with synchronous and asynchronous systems *)

\* The world is set up (systems, hooks, listeners) before the timer starts.

TickSystems == {"move", "spawn", "look", "fetch", "spawnFetch"}

NextTick ==
    \/ runs = <<>> /\ \E system \in TickSystems : addSystem(system)
    \/ runs = <<>> /\ addOnUpdateHook("onUpdate")
    \/ runs = <<>> /\ subscribeToEvent("entityAdded", "cb1")
    \/ runs = <<>> /\ addOnEntityAddedHook("cb2")
    \/ loop(Len(runs) + 1)
    \/ \E r \in DOMAIN runs : settle(r)
    \/ resume

SpecTick == Init /\ [][NextTick]_vars

(* Ticks with systems that fail *)

FailSystems == {"move", "spawn", "boom", "late"}

NextFail ==
    \/ \E system \in FailSystems : addSystem(system)
    \/ loop(Len(runs) + 1)
    \/ \E r \in DOMAIN runs : settle(r)
    \/ resume

SpecFail == Init /\ [][NextFail]_vars

(* Queries with addHook / removeHook callbacks under every caller *)

NextHooks ==
    \/ \E c \in HookLiterals : createEntity(NoRef, c, "none")
    \/ \E e \in Refs : removeEntity(e, "none")
    \/ \E f \in HookFilters : query(f, TRUE)
    \/ \E q \in DOMAIN queries : addHook(q, "onMatch")
    \/ \E q \in DOMAIN queries : removeHook(q, "onGone")
    \/ \E e \in Range(entities) : addComponent(e, "tag", 1)
    \/ \E e \in Range(entities) : removeComponent(e, "tag")

SpecHooks == Init /\ [][NextHooks]_vars

(* The event bus under every caller *)

EventNames == {"hit", "heal", "level-up"}
Callbacks == {"cb1", "cb2"}

NextEvents ==
    \/ \E n \in EventNames, cb \in Callbacks : subscribeToEvent(n, cb)
    \/ \E n \in EventNames, d \in Vals : emitEvent(n, d)

SpecEvents == Init /\ [][NextEvents]_vars

(* The World of Runner.ts under every caller: spawn, destroy, query *)

NextRunner ==
    \/ \E c \in HookLiterals : createEntity(NoRef, c, "none")
    \/ \E e \in Refs : removeEntity(e, "none")
    \/ \E f \in HookFilters : runnerQuery(f)
    \/ \E q \in DOMAIN queries : runnerAddHook(q, "onMatch")
    \/ \E q \in DOMAIN queries : runnerRemoveHook(q, "onGone")

SpecRunner == Init /\ [][NextRunner]_vars

----------------------------------------------------------------------------
(* Observers: observe and unobserve of the Runner.ts World *)

\* observe(entity, callback): a fresh id for the entity, the callback stored
\* under it, and a new proxy whose set trap closes over the callback
observe(e, cb) ==
    /\ nextId <= MaxIds
    /\ Len(proxies) < MaxSubs
    /\ LET entityId == FreshId(entityById, nextId)
       IN  /\ entityById' = MapSet(entityById, entityId, e)
           /\ genLog' = Append(genLog, <<entityId, e>>)
           /\ observers' = MapSet(observers, entityId, cb)
    /\ nextId' = nextId + 1
    /\ proxies' = Append(proxies, [target |-> e, callback |-> cb])
    /\ observeLog' = Append(observeLog, <<"observe", e>>)
    /\ calls' = <<>>
    /\ last' = Op("observe", e, cb, <<>>, Len(proxies) + 1, FALSE)
    /\ UNCHANGED <<objs, notObs, tick, entityCreationQueue, queries, entities,
                   archetypes, onEntityAddedHooks, onEntityRemovedHooks,
                   eventListeners>>

\* unobserve(entity): the entry of the first id that maps to the entity
unobserve(e) ==
    /\ LET entityId == GetKeyByValue(entityById, e)
       IN  observers' = IF entityId # 0 /\ entityId \in DOMAIN observers
                        THEN MapDelete(observers, entityId) ELSE observers
    /\ observeLog' = Append(observeLog, <<"unobserve", e>>)
    /\ calls' = <<>>
    /\ last' = Op("unobserve", e, "", <<>>, NoRef, FALSE)
    /\ UNCHANGED <<objs, notObs, ecsVars, proxies>>

\* proxy[property] = value: the set trap of the proxy p
proxySet(p, property, value) ==
    /\ LET target == proxies[p].target
           heap == [objs EXCEPT ![target] = SetKey(@, property, value)]
       IN  /\ objs' = heap
           /\ \E ev \in {EmitEvent(eventListeners, "state-changed", target, queries,
                                   entities, heap)} :
                /\ calls' = <<Call("observer", proxies[p].callback, target)>> \o ev.calls
                /\ queries' = ev.qs
    /\ last' = Op("proxy.set", p, property, <<>>, value, FALSE)
    /\ UNCHANGED <<notObs, obsVars, tick, entityCreationQueue, entities, archetypes,
                   onEntityAddedHooks, onEntityRemovedHooks, eventListeners,
                   entityById, nextId, genLog>>

MaxCalls == 3      \* observe / unobserve calls in one behaviour

NextObs ==
    \/ createEntity(NoRef, [health |-> 1], "none")
    \/ \E e \in Refs : removeEntity(e, "none")
    \/ subscribeToEvent("state-changed", "cb1")
    \/ \E e \in Refs : Len(observeLog) < MaxCalls /\ observe(e, "cb2")
    \/ \E e \in Refs : Len(observeLog) < MaxCalls /\ unobserve(e)
    \/ \E p \in DOMAIN proxies : proxySet(p, "health", 2)

SpecObs == Init /\ [][NextObs]_vars

----------------------------------------------------------------------------
(* WorldRunner: simRunner.ts *)

MaxTimers == 3     \* timers that setInterval starts in one behaviour

\* this.interval = setInterval(this.loop, 1000 / this.targetRefreshRate):
\* the host starts a timer and returns its id, a positive number
SetInterval ==
    /\ nextTimer <= MaxTimers
    /\ interval' = nextTimer
    /\ timers' = timers \cup {nextTimer}
    /\ nextTimer' = nextTimer + 1

\* if (this.interval) clearInterval(this.interval); this.interval = undefined
Pause ==
    /\ timers' = IF interval # Undefined THEN timers \ {interval} ELSE timers
    /\ interval' = Undefined
    /\ UNCHANGED nextTimer

\* if (!this.interval) { this.lastTime = Date.now(); this.interval = setInterval(...) }
Resume == IF interval = Undefined THEN SetInterval ELSE UNCHANGED timerVars

\* begin()
beginAlways ==
    /\ SetInterval
    /\ calls' = <<>>
    /\ last' = Op("begin", NoRef, "", <<>>, NoRef, FALSE)
    /\ UNCHANGED notTimer
begin ==
    /\ IF interval # Undefined THEN UNCHANGED timerVars ELSE SetInterval
    /\ calls' = <<>>
    /\ last' = Op("begin", NoRef, "", <<>>, NoRef, FALSE)
    /\ UNCHANGED notTimer

\* pause()
pause ==
    /\ Pause
    /\ calls' = <<>>
    /\ last' = Op("pause", NoRef, "", <<>>, NoRef, FALSE)
    /\ UNCHANGED notTimer

\* resume() of the WorldRunner
WorldRunnerResume ==
    /\ Resume
    /\ calls' = <<>>
    /\ last' = Op("WorldRunner.resume", NoRef, "", <<>>, NoRef, FALSE)
    /\ UNCHANGED notTimer

\* togglePause()
togglePause ==
    /\ IF interval # Undefined THEN Pause ELSE Resume
    /\ calls' = <<>>
    /\ last' = Op("togglePause", NoRef, "", <<>>, NoRef, FALSE)
    /\ UNCHANGED notTimer

\* an active timer fires: this.loop()
fire(t) ==
    /\ t \in timers
    /\ loop(Len(runs) + 1)

NextTimer ==
    \/ runs = <<>> /\ \E system \in {"move", "fetch"} : addSystem(system)
    \/ \E r \in DOMAIN runs : settle(r)
    \/ resume
    \/ begin
    \/ pause
    \/ WorldRunnerResume
    \/ togglePause
    \/ \E t \in timers : fire(t)

SpecTimer == Init /\ [][NextTimer]_vars

----------------------------------------------------------------------------
(* The while loop of runSystems, one iteration per step, with callbacks that
   call addEntityToQueue *)

\* A listener or hook "requeue" is a function of the user that calls
\* world.addEntityToQueue({}) and returns; every other callback only returns.
Requeued(cs) == [i \in 1..Len(SelectSeq(cs, LAMBDA c : c.cb = "requeue")) |-> <<>>]

\* runSystems(deltaTime) up to its while loop: the update hooks, then the
\* systems in order (here systems that return no promise)
runSystemsBegin(dt) ==
    /\ ~drainPc.active
    /\ \A i \in DOMAIN systems : Mode(systems[i]) = "sync"
    /\ Len(entityCreationQueue)
            + Cardinality({i \in DOMAIN systems : Queues(systems[i])}) <= MaxQueue
    /\ entityCreationQueue' =
            entityCreationQueue
            \o [i \in 1..Len(SelectSeq(systems, Queues)) |-> [health |-> dt]]
    /\ drainPc' = [active |-> TRUE, dt |-> dt, iterations |-> 0]
    /\ calls' = CallEach("updateHook", onUpdateHooks, dt) \o CallEach("system", systems, dt)
    /\ last' = Op("runSystems.begin", dt, "", <<>>, NoRef, FALSE)
    /\ UNCHANGED <<objs, notDrain, tick, queries, entities, archetypes,
                   onEntityAddedHooks, onEntityRemovedHooks, eventListeners,
                   entityById, nextId, genLog>>

\* one iteration of while (this.entityCreationQueue.length > 0):
\* const entityData = this.entityCreationQueue.shift(); createEntity(entityData)
drainIteration ==
    /\ drainPc.active
    /\ entityCreationQueue # <<>>
    /\ Len(objs) < MaxObjs
    /\ \E w \in {Create(objs, entities, queries, NoRef, Head(entityCreationQueue), "none")} :
            /\ objs' = w.objs
            /\ entities' = w.entities
            /\ queries' = w.queries
            /\ calls' = w.calls
            /\ entityCreationQueue' = Tail(entityCreationQueue) \o Requeued(w.calls)
    /\ drainPc' = [drainPc EXCEPT !.iterations = @ + 1]
    /\ last' = Op("runSystems.iteration", drainPc.dt, "", Head(entityCreationQueue),
                  NoRef, FALSE)
    /\ UNCHANGED <<notDrain, tick, archetypes, onEntityAddedHooks, onEntityRemovedHooks,
                   eventListeners, entityById, nextId, genLog>>

\* the loop condition is false: runSystems completes
runSystemsEnd ==
    /\ drainPc.active
    /\ entityCreationQueue = <<>>
    /\ drainPc' = [drainPc EXCEPT !.active = FALSE]
    /\ calls' = <<>>
    /\ last' = Op("runSystems.end", drainPc.dt, "", <<>>, NoRef, FALSE)
    /\ UNCHANGED <<objs, notDrain, ecsVars>>

NextDrain ==
    \/ ~drainPc.active /\ \E system \in {"move", "spawn"} : addSystem(system)
    \/ ~drainPc.active /\ \E cb \in {"cb1", "requeue"} : subscribeToEvent("entityAdded", cb)
    \/ ~drainPc.active /\ \E cb \in {"cb2", "requeue"} : addOnEntityAddedHook(cb)
    \/ ~drainPc.active /\ addEntityToQueue([health |-> 0])
    \/ runSystemsBegin(1)
    \/ drainIteration
    \/ runSystemsEnd

SpecDrain == Init /\ [][NextDrain]_vars

\* The engine runs the loop without pause: an iteration that can run does run,
\* and the call returns once the loop condition is false.
SpecDrainFair == SpecDrain /\ WF_vars(drainIteration) /\ WF_vars(runSystemsEnd)

----------------------------------------------------------------------------
(* Claims about the entity store and the archetype registry *)

\* C1: createEntity(components) appends exactly one new entity at the end of
\* the entity list, earlier entities keep their positions, the new entity has
\* exactly the keys and values of components, it is an object distinct from
\* every object that existed before (the caller's bag among them, so a later
\* change of the bag cannot reach it), and the stored entity is what is returned.
C1_CreateAppendsCopy ==
    [][last'.op = "createEntity" =>
        /\ ~last'.threw
        /\ entities' = Append(entities, last'.ret)
        /\ last'.ret \notin Refs
        /\ last'.ret # last'.arg
        /\ objs'[last'.ret] = last'.bag
        /\ \A r \in Refs : objs'[r] = objs[r]
        /\ last'.arg # NoRef => objs'[last'.ret] = objs[last'.arg]]_vars

C1_Witness ==
    /\ last.op = "createEntity"
    /\ last.arg \in Range(entities)
    /\ last.ret = entities[Len(entities)]
    /\ Len(entities) >= 2
    /\ DOMAIN last.bag # {}

\* C2: removeEntity of an entity that is not in the entity list leaves the
\* entity list and the numeric-id table unchanged and invokes no listener,
\* no hook and no onRemove callback.
C2_RemoveAbsentNoOp ==
    [][(last'.op = "removeEntity" /\ last'.arg \notin Range(entities)) =>
        /\ entities' = entities
        /\ entityById' = entityById
        /\ calls' = <<>>]_vars

C2_Witness ==
    /\ last.op = "removeEntity"
    /\ last.arg \in Refs
    /\ last.arg \notin Range(entities)
    /\ entities # <<>>
    /\ \E id \in 1..(nextId - 1) : byID(id) = last.arg
    /\ "entityRemoved" \in DOMAIN eventListeners
    /\ onEntityRemovedHooks # <<>>
    /\ calls = <<>>

\* C3: after removeEntity(e) of an entity in the store, byID(id) is undefined
\* for every id that genID returned for e before, however many there are.
C3_RemoveDropsEveryId ==
    [][(last'.op = "removeEntity" /\ last'.arg \in Range(entities)) =>
        \A i \in DOMAIN genLog :
            genLog[i][2] = last'.arg => byID(genLog[i][1])' = NoRef]_vars

\* C4: genID returns strictly increasing numbers, so no id is returned twice,
\* also after the entity that held an id was destroyed and its mapping removed.
C4_IdsStrictlyIncrease ==
    \A i, j \in DOMAIN genLog : i < j => genLog[i][1] < genLog[j][1]

C4_Witness ==
    /\ last.op = "genID"
    /\ Len(genLog) >= 2
    /\ \E i \in DOMAIN genLog : genLog[i][1] \notin DOMAIN entityById
    /\ last.ret \in DOMAIN entityById

\* C5: createEntityFromArchetype(name, overrides) for a registered name
\* appends exactly one new entity whose keys are the union of the template's
\* and the overrides' keys, with the override value for every key of the
\* overrides and the template value otherwise; instancing changes neither the
\* registry nor the template, and re-registration changes no entity.
C5_InstanceMergesOverridesWin ==
    [][/\ (last'.op = "createEntityFromArchetype" /\ last'.name \in DOMAIN archetypes) =>
            LET template == objs[archetypes[last'.name]]
                created == objs'[last'.ret]
            IN  /\ ~last'.threw
                /\ entities' = Append(entities, last'.ret)
                /\ last'.ret \notin Refs
                /\ DOMAIN created = (DOMAIN template) \cup (DOMAIN last'.bag)
                /\ \A k \in DOMAIN last'.bag : created[k] = last'.bag[k]
                /\ \A k \in (DOMAIN template) \ (DOMAIN last'.bag) :
                        created[k] = template[k]
                /\ archetypes' = archetypes
                /\ \A r \in Refs : objs'[r] = objs[r]
       /\ last'.op = "registerArchetype" =>
            /\ entities' = entities
            /\ \A r \in Refs : objs'[r] = objs[r]]_vars

C5_Witness ==
    /\ last.op = "createEntityFromArchetype"
    /\ ~last.threw
    /\ last.name \in DOMAIN archetypes
    /\ LET template == objs[archetypes[last.name]]
       IN  /\ \E k \in (DOMAIN template) \cap (DOMAIN last.bag) :
                template[k] # last.bag[k]
           /\ (DOMAIN last.bag) \ (DOMAIN template) # {}
    /\ Len(entities) >= 2

\* C6: createEntityFromArchetype with a name that was never registered
\* fails, and the failure leaves the entity list and the id table unchanged
\* and invokes no listener and no hook.
C6_UnknownArchetypeFails ==
    [][(last'.op = "createEntityFromArchetype" /\ last'.name \notin DOMAIN archetypes) =>
        /\ last'.threw
        /\ entities' = entities
        /\ objs' = objs
        /\ entityById' = entityById
        /\ calls' = <<>>]_vars

C6_Witness ==
    /\ last.op = "createEntityFromArchetype"
    /\ last.threw
    /\ last.name \notin DOMAIN archetypes
    /\ DOMAIN archetypes # {}
    /\ entities # <<>>
    /\ "entityAdded" \in DOMAIN eventListeners
    /\ onEntityAddedHooks # <<>>

----------------------------------------------------------------------------
(* Claims about the query engine *)

\* what the claim calls satisfying a filter: every clause that is present holds
Satisfies(f, o) ==
    /\ "has" \in DOMAIN f => f["has"] \subseteq DOMAIN o
    /\ "none" \in DOMAIN f => f["none"] \cap DOMAIN o = {}
    /\ "tags" \in DOMAIN f => \A k \in f["tags"] : k \in DOMAIN o /\ o[k] # 0
    /\ "where" \in DOMAIN f => ("health" \in DOMAIN o /\ o["health"] > 0)

\* C7: when query(filter) returns, its entities array holds exactly the
\* entities of the store that satisfy every clause present in the filter,
\* each once and in store order; a filter with no clause returns every entity.
C7_QueryExactInStoreOrder ==
    last.op = "query" =>
        LET f == last.q.filter
            res == last.q.entities
        IN  /\ Range(res) = {e \in Range(entities) : Satisfies(f, objs[e])}
            /\ \A i, j \in DOMAIN res : i < j =>
                    /\ res[i] # res[j]
                    /\ IndexOf(entities, res[i]) < IndexOf(entities, res[j])
            /\ DOMAIN f = {} => res = entities

C7_Witness ==
    /\ last.op = "query"
    /\ DOMAIN last.q.filter = {"has", "none", "tags", "where"}
    /\ Len(last.q.entities) >= 1
    /\ Len(entities) > Len(last.q.entities) + 1
    /\ \E e \in Range(entities) :
            /\ last.q.filter["tags"] \subseteq DOMAIN objs[e]
            /\ \E k \in last.q.filter["tags"] : objs[e][k] = 0

\* C10: query(filter).singleton is the matching entity when exactly one
\* entity of the store matches the filter, and null when none or several match.
C10_SingletonOnlyWhenOne ==
    last.op = "query" =>
        LET matching == {e \in Range(entities) : Satisfies(last.q.filter, objs[e])}
        IN  IF Cardinality(matching) = 1
            THEN last.q.singleton \in matching
            ELSE last.q.singleton = NoRef

C10_Witness ==
    /\ last.op = "query"
    /\ last.q.singleton # NoRef
    /\ Len(entities) >= 2
    /\ DOMAIN last.q.filter # {}

\* the set of entities of the store that satisfy filter f, before and after
\* the step from this state to the next one
MatchSetBefore(f) == {e \in Range(entities) : Satisfies(f, objs[e])}
MatchSetAfter(f) == {e \in Range(entities') : Satisfies(f, objs'[e])}

\* C15: an operation emits no 'queryChanged' when the set of entities matching
\* the query is the same before and after it; evaluating a filter, which
\* changes nothing in the store, emits none.
C15_NoEventWhenMatchSetUnchanged ==
    [][(/\ last'.op = "query"
        /\ MatchSetBefore(last'.q.filter) = MatchSetAfter(last'.q.filter)) =>
        \A i \in DOMAIN calls' : calls'[i].via # "queryChanged"]_vars

\* C16: every emitted 'queryChanged' carries as entities the full current
\* match set, as addedEntities the entities in the current match set that were
\* not in the previous one, and as removedEntities those of the previous
\* match set that are not in the current one.
C16_EventCarriesSetAndDeltas ==
    [][last'.op = "query" =>
        \A i \in DOMAIN calls' :
            calls'[i].via = "queryChanged" =>
                LET prev == MatchSetBefore(last'.q.filter)
                    cur == MatchSetAfter(last'.q.filter)
                IN  /\ Range(calls'[i].data[1]) = cur
                    /\ Range(calls'[i].data[2]) = cur \ prev
                    /\ Range(calls'[i].data[3]) = prev \ cur]_vars

\* C17: emitEvent(name, data) invokes every callback subscribed to name
\* exactly once, in order of subscription, all with the same data; callbacks
\* of other names are not invoked and a name with no subscriber invokes nothing.
C17_EmitInvokesSubscribersInOrder ==
    last.op = "emitEvent" =>
        LET subscribed == IF last.name \in DOMAIN eventListeners
                          THEN eventListeners[last.name] ELSE <<>>
        IN  /\ Len(calls) = Len(subscribed)
            /\ \A i \in DOMAIN calls :
                    /\ calls[i].cb = subscribed[i].fn
                    /\ calls[i].via = last.name
                    /\ calls[i].entity = last.arg

C17_Witness ==
    /\ last.op = "emitEvent"
    /\ Len(calls) = 2
    /\ calls[1].cb # calls[2].cb

----------------------------------------------------------------------------
(* Claims about the callbacks of a query *)

\* the entities that the step from this state to the next one created
CreatedNow == SubSeq(entities', Len(entities) + 1, Len(entities'))

\* the calls of a list that came through via, in order
Through(cs, via) == SelectSeq(cs, LAMBDA c : c.via = via)

\* how many of the calls of a list satisfy: through via, of cb, with entity e
Count(cs, via, cb, e) ==
    Cardinality({i \in DOMAIN cs :
                    cs[i].via = via /\ cs[i].cb = cb /\ cs[i].entity = e})

\* C11: after q = query(f) and q.addHook(cb), every later creation of an
\* entity (createEntity, createEntityFromArchetype, the drain of the deferred
\* queue) invokes cb with the new entity exactly once for each registration
\* whose filter the new entity satisfies, and not at all when it satisfies none.
C11_AddHookOncePerMatchingCreation ==
    [][last'.op \in {"createEntity", "createEntityFromArchetype", "runSystems"} =>
        \A h \in DOMAIN onEntityAddedHooks :
            onEntityAddedHooks[h].kind = "addHook" =>
                \A n \in DOMAIN CreatedNow :
                    LET e == CreatedNow[n]
                        cb == onEntityAddedHooks[h].fn
                        regs == {j \in DOMAIN onEntityAddedHooks :
                                    /\ onEntityAddedHooks[j].kind = "addHook"
                                    /\ onEntityAddedHooks[j].fn = cb
                                    /\ Satisfies(queries[onEntityAddedHooks[j].q].filter,
                                                 objs'[e])}
                    IN  Count(calls', "query.addHook", cb, e) = Cardinality(regs)]_vars

C11_Witness ==
    /\ last.op = "runSystems"
    /\ \E i \in DOMAIN calls : calls[i].via = "query.addHook"
    /\ \E i \in DOMAIN calls, e \in Range(entities) :
            /\ calls[i].via = "query.addHook"
            /\ e > calls[i].entity
            /\ ~Satisfies(queries[1].filter, objs[e])
            /\ Count(calls, "query.addHook", "onMatch", e) = 0

\* C12: after q = query(f) and q.removeHook(cb), removeEntity(e) invokes cb
\* only when e was a member of q's match set (it is in q's entities array or
\* it satisfies f); removing an entity that never matched f does not invoke cb.
C12_RemoveHookOnlyForMembers ==
    [][last'.op = "removeEntity" =>
        \A i \in DOMAIN calls' :
            calls'[i].via = "query.removeHook" =>
                \E l \in DOMAIN eventListeners["entityRemoved"] :
                    LET reg == eventListeners["entityRemoved"][l]
                    IN  /\ reg.kind = "removeHook"
                        /\ reg.fn = calls'[i].cb
                        /\ \/ last'.arg \in Range(queries[reg.q].matched)
                           \/ Satisfies(queries[reg.q].filter, objs[last'.arg])]_vars

\* C35: the entities array returned by query in ecs.ts never contains the
\* same entity twice, however many addHook callbacks are registered on that
\* query and whatever entities are created afterwards.
C35_QueryEntitiesHoldNoDuplicate ==
    \A q \in DOMAIN queries :
        \A i, j \in DOMAIN queries[q].matched :
            queries[q].matched[i] = queries[q].matched[j] => i = j

\* C36: with a removeHook registered on a query in ecs.ts, removing an
\* entity that is not in that query's entities array leaves the array
\* unchanged: no matching entity that is still in the store disappears
\* from it.
C36_RemovingANonMemberKeepsTheArray ==
    [][last'.op = "removeEntity" =>
        \A q \in DOMAIN queries :
            (/\ "entityRemoved" \in DOMAIN eventListeners
             /\ \E l \in DOMAIN eventListeners["entityRemoved"] :
                    /\ eventListeners["entityRemoved"][l].kind = "removeHook"
                    /\ eventListeners["entityRemoved"][l].q = q
             /\ last'.arg \notin Range(queries[q].matched))
                => queries'[q].matched = queries[q].matched]_vars

\* C37: evaluating a query in the Runner.ts World is free of side effects on
\* the hook tables: after n calls of query with no addHook or removeHook
\* call, the entity-added and entity-removed hook lists have the length they
\* had before, so the work done by one spawn or destroy does not grow with
\* the number of queries evaluated earlier.
C37_QueryLeavesTheHookListsAlone ==
    [][last'.op = "Runner.query" =>
        /\ Len(onEntityAddedHooks') = Len(onEntityAddedHooks)
        /\ Len(onEntityRemovedHooks') = Len(onEntityRemovedHooks)]_vars

\* C13: in the World of Runner.ts, after q = query(f) and q.removeHook(cb),
\* destroying an entity that is in the store and satisfies f invokes cb with
\* that entity exactly once for each such registration.
C13_RunnerRemoveHookFires ==
    [][(/\ last'.op = "removeEntity"
        /\ last'.arg \in Range(entities)
        /\ "entityRemoved" \in DOMAIN eventListeners) =>
        \A l \in DOMAIN eventListeners["entityRemoved"] :
            LET reg == eventListeners["entityRemoved"][l]
                regs == {j \in DOMAIN eventListeners["entityRemoved"] :
                            LET r == eventListeners["entityRemoved"][j]
                            IN  /\ r.kind = "r.removeHook"
                                /\ r.fn = reg.fn
                                /\ Satisfies(queries[r.q].filter, objs[last'.arg])}
            IN  reg.kind = "r.removeHook" =>
                    Count(calls', "query.removeHook", reg.fn, last'.arg)
                        = Cardinality(regs)]_vars

\* C14: with addHook and removeHook callbacks registered on a query, an entity
\* of the store that begins to satisfy the filter through addComponent
\* triggers the add callback, and one that ceases to satisfy it through
\* removeComponent triggers the remove callback.
C14_MutationNotifiesHooks ==
    [][/\ (last'.op = "addComponent" /\ last'.arg \in Range(entities)) =>
            \A h \in DOMAIN onEntityAddedHooks :
                LET reg == onEntityAddedHooks[h]
                IN  (/\ reg.kind = "addHook"
                     /\ ~Satisfies(queries[reg.q].filter, objs[last'.arg])
                     /\ Satisfies(queries[reg.q].filter, objs'[last'.arg]))
                    => Count(calls', "query.addHook", reg.fn, last'.arg) >= 1
       /\ (/\ last'.op = "removeComponent"
           /\ last'.arg \in Range(entities)
           /\ "entityRemoved" \in DOMAIN eventListeners) =>
            \A l \in DOMAIN eventListeners["entityRemoved"] :
                LET reg == eventListeners["entityRemoved"][l]
                IN  (/\ reg.kind = "removeHook"
                     /\ Satisfies(queries[reg.q].filter, objs[last'.arg])
                     /\ ~Satisfies(queries[reg.q].filter, objs'[last'.arg]))
                    => Count(calls', "query.removeHook", reg.fn, last'.arg) >= 1]_vars

----------------------------------------------------------------------------
(* The World with middleware and cached queries (the second World of the
   module that also holds the World extending Collection) *)

\* entity.id; 0 stands for every falsy id, undefined among them
IdOf(o) == IF "id" \in DOMAIN o THEN o["id"] ELSE 0

\* Math.random().toString(36).substring(2): a value no other object holds
RandomId(e) == 0 - e

\* this.entities.findIndex((e) => e.id === entity.id); 0 is the source's -1
FindIndexById(s, heap, id) ==
    IF \E i \in DOMAIN s : IdOf(heap[s[i]]) = id
    THEN CHOOSE i \in DOMAIN s :
            IdOf(heap[s[i]]) = id /\ \A j \in 1..(i - 1) : IdOf(heap[s[j]]) # id
    ELSE 0

RECURSIVE Flatten(_)
Flatten(ss) == IF ss = <<>> THEN <<>> ELSE Head(ss) \o Flatten(Tail(ss))

\* a condition of an IEvent, a user predicate over the context
CondHolds(cond, o) ==
    \/ cond = "always"
    \/ cond = "healthPositive" /\ "health" \in DOMAIN o /\ o["health"] > 0

\* processEvent(event): every listener of the channel, for every entity,
\* runs its actions when all its conditions hold
ProcessEvent(listeners, ents, heap, name) ==
    IF name \notin DOMAIN listeners THEN <<>>
    ELSE Flatten([i \in 1..Len(listeners[name]) |->
            Flatten([j \in 1..Len(ents) |->
                LET evt == listeners[name][i]
                IN  IF \A c \in 1..Len(evt.conditions) :
                            CondHolds(evt.conditions[c], heap[ents[j]])
                    THEN [a \in 1..Len(evt.actions) |->
                            Call(name, evt.actions[a], ents[j])]
                    ELSE <<>>])])

\* A middleware is a function of the user; what matters of it here is
\* whether it calls next() for an event: "log" and "audit" always do,
\* "noCreate" does for every event but 'entityCreated'.
MwCallsNext(mw, name) ==
    \/ mw \in {"log", "audit"}
    \/ mw = "noCreate" /\ name # "entityCreated"

\* processMiddlewares(0): middleware index runs, and index + 1 runs when it
\* calls next.  The number of middlewares that run.
ReachedAll(mws, name) == Len(mws)
Reached(mws, name) ==
    LET blocked == {i \in DOMAIN mws : ~MwCallsNext(mws[i], name)}
    IN  IF blocked = {} THEN Len(mws)
        ELSE CHOOSE i \in blocked : \A j \in blocked : i <= j

\* whether processMiddlewares reaches index >= middlewares.length
ChainAlwaysCompletes(mws, name) == TRUE
ChainCompletes(mws, name) == \A i \in DOMAIN mws : MwCallsNext(mws[i], name)

\* emitEvent(event): the middlewares in order, each reached only when the
\* one before it called next; the listeners after the last one
MwEmit(mws, listeners, ents, heap, name) ==
    [i \in 1..Reached(mws, name) |-> Call("middleware", mws[i], NoRef)]
    \o (IF ChainCompletes(mws, name)
        THEN ProcessEvent(listeners, ents, heap, name) ELSE <<>>)

\* create(entity): the world keeps the caller's object
mwCreate(r, c) ==
    /\ Len(mwEntities) < MaxObjs
    /\ r = NoRef => Len(objs) < MaxObjs
    /\ LET entity == IF r = NoRef THEN Len(objs) + 1 ELSE r
           withId == IF IdOf(c) = 0 THEN SetKey(c, "id", RandomId(entity)) ELSE c
           heap == Store(objs, entity, withId)
           ents == Append(mwEntities, entity)
       IN  /\ objs' = heap
           /\ mwEntities' = ents
           /\ calls' = MwEmit(middlewares, mwEventListeners, ents, heap, "entityCreated")
           /\ last' = Op("mw.create", r, "", c, entity, FALSE)
    /\ cachedQueries' = <<>>
    /\ shortCircuited' = (shortCircuited \/ ~ChainCompletes(middlewares, "entityCreated"))
    /\ UNCHANGED <<notMw, mwEventListeners, middlewares>>

\* destroy(entity)
mwDestroy(e) ==
    /\ LET index == FindIndexById(mwEntities, objs, IdOf(objs[e]))
       IN  IF index # 0
           THEN /\ mwEntities' = Splice1(mwEntities, index)
                /\ calls' = MwEmit(middlewares, mwEventListeners,
                                   Splice1(mwEntities, index), objs, "entityDestroyed")
                /\ cachedQueries' = <<>>
                /\ shortCircuited' =
                        (shortCircuited \/ ~ChainCompletes(middlewares, "entityDestroyed"))
           ELSE /\ calls' = <<>>
                /\ UNCHANGED <<mwEntities, cachedQueries, shortCircuited>>
    /\ last' = Op("mw.destroy", e, "", <<>>, NoRef, FALSE)
    /\ UNCHANGED <<objs, notMw, mwEventListeners, middlewares>>

\* update(entity, changes)
mwUpdate(e, changes) ==
    /\ LET index == FindIndexById(mwEntities, objs, IdOf(objs[e]))
       IN  IF index # 0
           THEN /\ Len(objs) < MaxObjs
                /\ LET heap == Append(objs, Spread2(objs[mwEntities[index]], changes))
                       ents == [mwEntities EXCEPT ![index] = Len(objs) + 1]
                   IN  /\ objs' = heap
                       /\ mwEntities' = ents
                       /\ calls' = MwEmit(middlewares, mwEventListeners, ents, heap,
                                          "entityUpdated")
                /\ cachedQueries' = <<>>
                /\ shortCircuited' =
                        (shortCircuited \/ ~ChainCompletes(middlewares, "entityUpdated"))
           ELSE /\ calls' = <<>>
                /\ UNCHANGED <<objs, mwEntities, cachedQueries, shortCircuited>>
    /\ last' = Op("mw.update", e, "", changes, NoRef, FALSE)
    /\ UNCHANGED <<notMw, mwEventListeners, middlewares>>

\* the caller assigns a field of an entity it holds: entity.isAlive = false
mwSetField(e, k, v) ==
    /\ objs[e] # SetKey(objs[e], k, v)
    /\ objs' = [objs EXCEPT ![e] = SetKey(@, k, v)]
    /\ calls' = <<>>
    /\ last' = Op("setField", e, k, <<>>, NoRef, FALSE)
    /\ UNCHANGED <<notMw, mwVars>>

\* on(eventName, event): push, then sort by descending priority (stable)
\* (evt.priority || 0): a missing priority counts as 0
PriorityOf(evt) == IF evt.priority = Undefined THEN 0 ELSE evt.priority

RECURSIVE InsertBeforeEqual(_, _)
InsertBeforeEqual(s, evt) ==
    IF s = <<>> THEN <<evt>>
    ELSE IF PriorityOf(s[Len(s)]) > PriorityOf(evt) THEN Append(s, evt)
    ELSE Append(InsertBeforeEqual(SubSeq(s, 1, Len(s) - 1), evt), s[Len(s)])
RECURSIVE InsertByPriority(_, _)
InsertByPriority(s, evt) ==
    IF s = <<>> THEN <<evt>>
    ELSE IF PriorityOf(s[Len(s)]) >= PriorityOf(evt) THEN Append(s, evt)
    ELSE Append(InsertByPriority(SubSeq(s, 1, Len(s) - 1), evt), s[Len(s)])

NumMw ==
    Cardinality(UNION {{<<n, i>> : i \in DOMAIN mwEventListeners[n]} :
                          n \in DOMAIN mwEventListeners})

mwOn(name, evt) ==
    /\ NumMw < MaxSubs
    /\ mwEventListeners' =
            MapSet(mwEventListeners, name,
                   InsertByPriority(IF name \in DOMAIN mwEventListeners
                                    THEN mwEventListeners[name] ELSE <<>>, evt))
    /\ calls' = <<>>
    /\ last' = Op("mw.on", NoRef, name, evt, NoRef, FALSE)
    /\ UNCHANGED <<objs, notMw, mwEntities, cachedQueries, middlewares, shortCircuited>>

\* use(middleware)
mwUse(mw) ==
    /\ Len(middlewares) < MaxSubs
    /\ middlewares' = Append(middlewares, mw)
    /\ calls' = <<>>
    /\ last' = Op("mw.use", NoRef, mw, <<>>, NoRef, FALSE)
    /\ UNCHANGED <<objs, notMw, mwEntities, cachedQueries, mwEventListeners, shortCircuited>>

\* emitEvent(event), called by a user of the world
mwEmitEvent(name) ==
    /\ calls' = MwEmit(middlewares, mwEventListeners, mwEntities, objs, name)
    /\ shortCircuited' = (shortCircuited \/ ~ChainCompletes(middlewares, name))
    /\ last' = Op("mw.emitEvent", NoRef, name, <<>>, NoRef, FALSE)
    /\ UNCHANGED <<objs, notMw, mwEntities, cachedQueries, mwEventListeners, middlewares>>

\* A predicate closure: its source text and the value of the variable it
\* captured, e.g. (e) => e.health === x
PredHolds(p, o) ==
    \/ p.text = "e.health === x" /\ "health" \in DOMAIN o /\ o["health"] = p.x
    \/ p.text = "e.tag" /\ Truthy(o, "tag")

\* getCacheKey(predicate): JSON.stringify(predicate.toString())
GetCacheKey(p) == p.text

\* queryEntities(predicate)
queryEntities(p) ==
    /\ LET cacheKey == GetCacheKey(p)
       IN  IF cacheKey \in DOMAIN cachedQueries
           THEN /\ last' = QueryOp("queryEntities", p, cachedQueries[cacheKey], NoRef)
                /\ UNCHANGED cachedQueries
           ELSE LET result == FilterSeq(mwEntities,
                                {e \in Range(mwEntities) : PredHolds(p, objs[e])})
                IN  /\ cachedQueries' = MapSet(cachedQueries, cacheKey, result)
                    /\ last' = QueryOp("queryEntities", p, result, NoRef)
    /\ calls' = <<>>
    /\ UNCHANGED <<objs, notMw, mwEntities, mwEventListeners, middlewares, shortCircuited>>

MwLiterals == {[health |-> 1], [id |-> 1, health |-> 0], [id |-> 1, tag |-> 1]}
Preds == {[text |-> "e.health === x", x |-> 0], [text |-> "e.health === x", x |-> 1],
          [text |-> "e.tag", x |-> 0]}

NextMw ==
    \/ \E c \in MwLiterals : mwCreate(NoRef, c)
    \/ \E e \in Refs : mwDestroy(e)
    \/ \E e \in Refs : mwUpdate(e, [health |-> 0])
    \/ \E e \in Range(mwEntities), v \in Vals : mwSetField(e, "health", v)
    \/ \E p \in Preds : queryEntities(p)

SpecMw == Init /\ [][NextMw]_vars

(* The event dispatcher of the middleware World under every caller *)

Middlewares == {"log", "audit", "noCreate"}
MwEvents == {[priority |-> 0, conditions |-> <<>>, actions |-> <<"act1">>],
             [priority |-> 0, conditions |-> <<"healthPositive">>, actions |-> <<"act2">>]}
MwEventNames == {"entityCreated", "ping"}

(* Listeners of one channel of the middleware World, with priorities *)

PrioEvents ==
    {[priority |-> p, conditions |-> <<>>, actions |-> <<a>>] :
        p \in {Undefined, 0, 1}, a \in {"act1", "act2"}}

NextPrio ==
    \/ mwCreate(NoRef, [health |-> 1])
    \/ \E evt \in PrioEvents : mwOn("ping", evt)
    \/ mwEmitEvent("ping")

SpecPrio == Init /\ [][NextPrio]_vars

(* One dispatch of the middleware World whose actions change the store *)

\* An action of an IEvent is a function of the user over the context:
\*   "act1"   returns
\*   "reap"   ({ world, entity }) => { const first = world.entities[0];
\*                                     if (first !== entity) world.destroy(first) }
\*   "spawn"  ({ world }) => { world.create({}) }
\* The channels 'entityDestroyed' and 'entityCreated' have no listener and
\* the world has no middleware where these run, so the emitEvent inside
\* destroy and create calls nothing.  d is the world while the dispatch runs.
Acted(action, entity, d) ==
    IF action = "reap" /\ d.ents # <<>> /\ d.ents[1] # entity
    THEN [d EXCEPT !.ents = Splice1(d.ents,
                                FindIndexById(d.ents, d.heap, IdOf(d.heap[d.ents[1]]))),
                   !.touched = TRUE]
    ELSE IF action = "spawn"
    THEN [d EXCEPT !.heap = Append(d.heap, [id |-> RandomId(Len(d.heap) + 1)]),
                   !.ents = Append(d.ents, Len(d.heap) + 1),
                   !.touched = TRUE]
    ELSE d

\* evt.actions.forEach((action) => action(context))
RECURSIVE RunActions(_, _, _, _)
RunActions(actions, entity, name, d) ==
    IF actions = <<>> THEN d
    ELSE RunActions(Tail(actions), entity, name,
            Acted(Head(actions), entity,
                  [d EXCEPT !.calls = Append(@, Call(name, Head(actions), entity))]))

\* the callback of this.entities.forEach for listener i at one entity
Visited(i, evt, entity, name, d) ==
    IF \A c \in 1..Len(evt.conditions) : CondHolds(evt.conditions[c], d.heap[entity])
    THEN RunActions(evt.actions, entity, name,
            [d EXCEPT !.calls = Append(@, [via |-> "visit", cb |-> "conditions",
                                           entity |-> entity, data |-> <<i>>])])
    ELSE [d EXCEPT !.calls = Append(@, [via |-> "visit", cb |-> "conditions",
                                        entity |-> entity, data |-> <<i>>])]

\* Array.prototype.forEach: k runs over the indices below the length the array
\* had when forEach was called, and an index the array no longer has is skipped
RECURSIVE ForEachEntity(_, _, _, _, _, _)
ForEachEntity(i, evt, k, len, name, d) ==
    IF k > len \/ k > Len(d.ents) THEN d
    ELSE ForEachEntity(i, evt, k + 1, len, name, Visited(i, evt, d.ents[k], name, d))

\* listeners.forEach((evt) => this.entities.forEach(...))
RECURSIVE ForEachListener(_, _, _, _)
ForEachListener(listeners, i, name, d) ==
    IF i > Len(listeners) THEN d
    ELSE ForEachListener(listeners, i + 1, name,
            ForEachEntity(i, listeners[i], 1, Len(d.ents), name, d))

\* how many entities the actions of the listeners can create in one dispatch
Spawns(listeners, ents) ==
    Len(ents) * Len(SelectSeq(Flatten([i \in DOMAIN listeners |-> listeners[i].actions]),
                              LAMBDA a : a = "spawn"))

\* emitEvent(event) of a world without middleware: processEvent(event)
mwDispatch(name) ==
    /\ middlewares = <<>>
    /\ name \in DOMAIN mwEventListeners
    /\ Len(objs) + Spawns(mwEventListeners[name], mwEntities) <= MaxObjs
    /\ \E d \in {ForEachListener(mwEventListeners[name], 1, name,
                        [ents |-> mwEntities, heap |-> objs, calls |-> <<>>,
                         touched |-> FALSE])} :
            /\ objs' = d.heap
            /\ mwEntities' = d.ents
            /\ calls' = d.calls
            /\ cachedQueries' = IF d.touched THEN <<>> ELSE cachedQueries
    /\ last' = Op("mw.dispatch", NoRef, name, <<>>, NoRef, FALSE)
    /\ UNCHANGED <<notMw, mwEventListeners, middlewares, shortCircuited>>

DispatchEvents ==
    {[priority |-> 0, conditions |-> <<>>, actions |-> <<a>>] :
        a \in {"act1", "reap", "spawn"}}

NextDispatch ==
    \/ mwCreate(NoRef, [health |-> 1])
    \/ \E e \in Refs : mwDestroy(e)
    \/ \E evt \in DispatchEvents : mwOn("ping", evt)
    \/ mwDispatch("ping")

SpecDispatch == Init /\ [][NextDispatch]_vars

\* how often listener i was evaluated at entity e
Visits(cs, i, e) ==
    Cardinality({k \in DOMAIN cs :
                    cs[k].via = "visit" /\ cs[k].entity = e /\ cs[k].data = <<i>>})

\* C39: one dispatch of the middleware World evaluates each listener exactly
\* once for every entity that is in the store when the dispatch starts and is
\* still in the store when it ends, also when an action destroys another
\* entity or creates entities during the dispatch.
C39_EveryListenerSeesEverySurvivorOnce ==
    [][last'.op = "mw.dispatch" =>
        \A i \in DOMAIN mwEventListeners[last'.name] :
            \A e \in Range(mwEntities) \cap Range(mwEntities') :
                Visits(calls', i, e) = 1]_vars

NextBus ==
    \/ \E c \in MwLiterals : mwCreate(NoRef, c)
    \/ \E mw \in Middlewares : mwUse(mw)
    \/ \E n \in MwEventNames, evt \in MwEvents : mwOn(n, evt)
    \/ \E n \in MwEventNames : mwEmitEvent(n)

SpecBus == Init /\ [][NextBus]_vars

\* C8: queryEntities(p) returns exactly the entities currently in the store
\* for which p is true, after any sequence of create, destroy, update,
\* in-place mutation and earlier queryEntities calls.
C8_QueryEntitiesIsCurrent ==
    last.op = "queryEntities" =>
        /\ Range(last.q.entities) =
                {e \in Range(mwEntities) : PredHolds(last.q.filter, objs[e])}
        /\ Len(last.q.entities) =
                Cardinality({i \in DOMAIN mwEntities :
                                PredHolds(last.q.filter, objs[mwEntities[i]])})

----------------------------------------------------------------------------
(* Claims about the ticks *)

\* where in a trace the activation r did ev
At(t, r, ev) == {i \in DOMAIN t : t[i].run = r /\ t[i].ev = ev}
Before(places, i) == Cardinality({j \in places : j < i})

\* the activation that acted in the step to the next state
Acting == IF last'.op = "run" THEN last'.ret ELSE last'.arg

\* C23: in each run / runSystems(dt) call every update hook is invoked with dt
\* before any system starts, the systems are invoked with dt in list order,
\* each system starting only after the previous one has completed (the
\* promise it returned has settled), and the deferred-creation queue is
\* drained only after the last system has completed.
C23_HooksThenSystemsInTurnThenDrain ==
    [][last'.op \in {"run", "resume", "settle"} =>
        /\ last'.op = "run" =>
                /\ SubSeq(calls', 1, Len(onUpdateHooks))
                        = [i \in DOMAIN onUpdateHooks |->
                                Call("updateHook", onUpdateHooks[i], last'.arg)]
                /\ Cardinality(At(trace', Acting, "hook")) = Len(onUpdateHooks)
        /\ \A i \in DOMAIN calls' :
                calls'[i].via \in {"updateHook", "system"}
                    => calls'[i].entity = runs'[Acting].dt
        /\ \A r \in DOMAIN runs' :
            LET hooks == At(trace', r, "hook")
                starts == At(trace', r, "start")
                ends == At(trace', r, "end")
                drains == At(trace', r, "drain")
            IN  /\ \A h \in hooks, s \in starts : h < s
                /\ \A s \in starts :
                        LET k == Before(starts, s) + 1
                        IN  /\ trace'[s].sys = systems[k]
                            /\ Before(ends, s) = k - 1
                /\ \A d \in drains :
                        /\ \A h \in hooks : h < d
                        /\ \A s \in starts : s < d
                        /\ Before(ends, d) = Cardinality(starts)
                /\ (r = Acting /\ runs'[r].state = "done" /\ last'.op # "settle")
                        => Cardinality(starts) = Len(systems)]_vars

C23_Witness ==
    /\ last.op = "resume"
    /\ runs[1].state = "done"
    /\ onUpdateHooks # <<>>
    /\ Len(systems) = 2
    /\ Mode(systems[1]) = "async"
    /\ Cardinality(At(trace, 1, "end")) = 2
    /\ Len(runs) = 2
    /\ \E i \in At(trace, 2, "start") :
            /\ \E j \in At(trace, 1, "start") : j < i
            /\ \E j \in At(trace, 1, "end") : i < j

\* the specifications that systems queued and no drain has taken yet, in
\* the order of their addEntityToQueue calls
Waiting ==
    LET lastDrain == IF \E i \in DOMAIN trace : trace[i].ev = "drain"
                     THEN CHOOSE i \in DOMAIN trace :
                            /\ trace[i].ev = "drain"
                            /\ \A j \in DOMAIN trace : trace[j].ev = "drain" => j <= i
                     ELSE 0
        queued == SelectSeq(SubSeq(trace, lastDrain + 1, Len(trace)),
                            LAMBDA e : e.ev = "queued")
    IN  [k \in DOMAIN queued |-> [health |-> runs[queued[k].run].dt]]

\* the listeners of a name, none when nobody subscribed to it
ListenersOf(name) ==
    IF name \in DOMAIN eventListeners THEN eventListeners[name] ELSE <<>>

\* the step to the next state ends an activation with its drain
Drains ==
    /\ last'.op \in {"run", "resume"}
    /\ Len(trace') > Len(trace)
    /\ trace'[Len(trace')].ev = "drain"

\* C24: the drain at the end of run / runSystems creates exactly one entity
\* per queued specification, in the order in which addEntityToQueue was
\* called, each through createEntity, so that every 'entityAdded' listener
\* and every entity-added hook is invoked once per drained item, and the
\* queue is empty when the call completes.
C24_DrainCreatesQueuedInOrder ==
    [][Drains =>
        /\ entityCreationQueue = Waiting
        /\ Len(CreatedNow) = Len(entityCreationQueue)
        /\ \A k \in DOMAIN CreatedNow :
                /\ objs'[CreatedNow[k]] = entityCreationQueue[k]
                /\ CreatedNow[k] \notin DOMAIN objs
        /\ SubSeq(entities', 1, Len(entities)) = entities
        /\ Through(calls', "entityAdded")
                = [i \in 1..(Len(CreatedNow) * Len(ListenersOf("entityAdded"))) |->
                    LET n == Len(ListenersOf("entityAdded"))
                    IN  CallAt("entityAdded",
                               ListenersOf("entityAdded")[((i - 1) % n) + 1].fn,
                               CreatedNow[((i - 1) \div n) + 1], entities')]
        /\ \A k \in DOMAIN CreatedNow, h \in DOMAIN onEntityAddedHooks :
                Count(calls', "addedHook", onEntityAddedHooks[h].fn, CreatedNow[k])
                    = Cardinality({g \in DOMAIN onEntityAddedHooks :
                                    onEntityAddedHooks[g] = onEntityAddedHooks[h]})
        /\ entityCreationQueue' = <<>>]_vars

C24_Witness ==
    /\ last.op = "resume"
    /\ trace[Len(trace)].ev = "drain"
    /\ Len(trace[Len(trace)].seen) = 2
    /\ objs[trace[Len(trace)].seen[1]] = [health |-> 2]
    /\ objs[trace[Len(trace)].seen[2]] = [health |-> 1]
    /\ Len(Through(calls, "entityAdded")) = 2
    /\ Len(Through(calls, "addedHook")) = 2
    /\ entityCreationQueue = <<>>

\* the entities created from the specifications that a system of the
\* activation r queued (such a specification is { health: dt } of r)
BornOf(t, heap, r, dt) ==
    {e \in UNION {Range(t[i].seen) : i \in {j \in DOMAIN t : t[j].ev = "drain"}} :
        heap[e] = [health |-> dt]}

\* C25: addEntityToQueue(spec) does not change the entity list and fires no
\* event or hook; a specification queued by a system during a tick is in no
\* query result evaluated by any system of that tick, and the entity created
\* from it is in the store and in matching query results once that tick's
\* run / runSystems has completed.
C25_QueuedAppearsAfterTheTick ==
    [][last'.op \in {"run", "resume"} =>
        /\ \A i \in DOMAIN trace' :
                trace'[i].ev = "queued" /\ i > Len(trace)
                    => entities' = entities /\ Through(calls', "entityAdded") = <<>>
        /\ \A r \in DOMAIN runs' :
                /\ \A i \in At(trace', r, "query") :
                        Range(trace'[i].seen)
                            \cap BornOf(trace', objs', r, runs'[r].dt) = {}
                /\ runs'[r].state = "done" =>
                        Cardinality(BornOf(trace', objs', r, runs'[r].dt)
                                        \cap Range(entities')
                                        \cap Range(MatchIn([has |-> {"health"}],
                                                           entities', objs')))
                            = Cardinality(At(trace', r, "queued"))]_vars

\* the system invocations that have started and not yet completed
InFlight ==
    {r \in DOMAIN runs : runs[r].state = "running" /\ runs[r].promise = "pending"}

\* C26: two systems never interleave: at every moment at most one system
\* invocation has started and not yet completed, and no deferred-queue drain
\* runs while a system is suspended, also when the systems are asynchronous
\* and the ticks are driven by the interval timer of WorldRunner.
C26_SystemsNeverInterleave ==
    /\ Cardinality(InFlight) <= 1
    /\ (trace # <<>> /\ trace[Len(trace)].ev = "drain" /\ last.op \in {"run", "resume"})
            => InFlight = {}

\* C27: if a system throws or rejects during run / runSystems, no later
\* system of that tick is invoked, the deferred-creation queue is not drained
\* in that tick, and the error reaches the caller: the promise that the call
\* returned is rejected.
C27_FailureEndsTheTick ==
    \A r \in DOMAIN runs :
        \A f \in At(trace, r, "failed") :
            /\ \A i \in DOMAIN trace :
                    (trace[i].run = r /\ i > f) => trace[i].ev = "rejected"
            /\ runs[r].state \in {"rejected", "running"}
            /\ (runs[r].state = "running") => r \in Range(microtasks)

C27_Witness ==
    /\ last.op = "resume"
    /\ systems = <<"spawn", "late">>
    /\ Len(runs) = 2
    /\ runs[1].state = "rejected"
    /\ runs[2].state = "rejected"
    /\ Cardinality(At(trace, 1, "start")) = 2
    /\ entityCreationQueue = <<[health |-> 1], [health |-> 2]>>
    /\ entities = <<>>

\* the observe / unobserve calls on the entity e so far
CallsOn(log, e) == {i \in DOMAIN log : log[i][2] = e}
\* whether the last of them was unobserve
Unobserved(log, e) ==
    /\ CallsOn(log, e) # {}
    /\ log[CHOOSE i \in CallsOn(log, e) : \A j \in CallsOn(log, e) : j <= i][1] = "unobserve"

\* C32: after unobserve(entity) in the Runner.ts World, the callback that was
\* passed to observe(entity, callback) is no longer invoked when a property
\* is set through the proxy returned by observe, and the observers table
\* holds no entry for any id that observe assigned to that entity.
C32_UnobserveStopsTheCallback ==
    [][/\ (last'.op = "proxy.set" /\ Unobserved(observeLog, proxies[last'.arg].target))
            => Through(calls', "observer") = <<>>
       /\ last'.op = "unobserve" =>
            \A i \in DOMAIN genLog' :
                genLog'[i][2] = last'.arg => genLog'[i][1] \notin DOMAIN observers']_vars

----------------------------------------------------------------------------
(* Claims about the WorldRunner *)

\* C33: WorldRunner keeps at most one interval timer active after any
\* sequence of begin, pause, resume and togglePause calls: begin while
\* running starts no second timer, pause stops the timer, resume starts one
\* only when none is running, and togglePause alternates between running and
\* paused.
C33_AtMostOneTimer ==
    [][/\ Cardinality(timers') <= 1
       /\ timers' = IF interval' = Undefined THEN {} ELSE {interval'}
       /\ (last'.op = "begin" /\ timers # {}) => timers' = timers
       /\ (last'.op = "begin" /\ timers = {}) => Cardinality(timers') = 1
       /\ last'.op = "pause" => timers' = {}
       /\ last'.op = "WorldRunner.resume" =>
            IF timers = {} THEN Cardinality(timers') = 1 ELSE timers' = timers
       /\ last'.op = "togglePause" => ((timers' = {}) <=> (timers # {}))
       /\ last'.op = "run" => timers # {} /\ timers' = timers]_vars

C33_Witness ==
    /\ last.op = "togglePause"
    /\ timers = {2}
    /\ Len(runs) = 1

\* C38: runSystems eventually completes whenever every update hook, system,
\* event listener and lifecycle hook returns, also when an 'entityAdded'
\* listener or entity-added hook calls addEntityToQueue while the deferred
\* queue is being drained.  Stated as the progress of the while loop: every
\* iteration leaves fewer specifications in the queue than it found, so the
\* loop ends after as many iterations as specifications were queued.
C38_EveryIterationShortensTheQueue ==
    [][last'.op = "runSystems.iteration" =>
        Len(entityCreationQueue') < Len(entityCreationQueue)]_vars

----------------------------------------------------------------------------
(* Claims about snapshots *)

\* the callables of the world: what a restore must not corrupt
Tables == <<systems, onUpdateHooks, onEntityAddedHooks, onEntityRemovedHooks,
            eventListeners>>

\* C28: fromJSON given a payload that cannot be parsed into the expected
\* shape (unparseable text, or parsed JSON in which entities, archetypes or
\* eventListeners is missing or not a list) fails, and after the failure the
\* entity list, the systems, the archetype table, the listener table and the
\* hook lists of the world are exactly as they were before the call.  The
\* payloads drawn here are unparseable text and JSON without archetypes or
\* without eventListeners.
C28_MalformedSnapshotChangesNothing ==
    [][(last'.op = "fromJSON" /\ last'.name # "roundTrip") =>
        /\ last'.threw
        /\ entities' = entities
        /\ archetypes' = archetypes
        /\ Tables' = Tables]_vars

\* C29: snapshot round trip: for a world whose entities hold only number,
\* boolean, string and nested-object component values, fromJSON(toJSON())
\* yields an entity list with the same length, the same order and equal
\* component keys and values, and an archetype table equal to the original.
C29_RoundTripKeepsEntitiesAndArchetypes ==
    [][(last'.op = "fromJSON" /\ last'.name = "roundTrip") =>
        /\ ~last'.threw
        /\ Len(entities') = Len(entities)
        /\ \A i \in DOMAIN entities : objs'[entities'[i]] = objs[entities[i]]
        /\ DOMAIN archetypes' = DOMAIN archetypes
        /\ \A n \in DOMAIN archetypes : objs'[archetypes'[n]] = objs[archetypes[n]]]_vars

\* C30: restoring a snapshot does not corrupt the callback tables: after
\* fromJSON(toJSON()) on a world with at least one registered system, update
\* hook, lifecycle hook or event listener, every element of the systems
\* list, the hook lists and the listener lists is callable, so that a
\* following createEntity and runSystems complete without a fault.
C30_RestoreKeepsCallbacksCallable ==
    [][/\ (last'.op = "fromJSON" /\ last'.name = "roundTrip") =>
            /\ \A i \in DOMAIN systems' : systems'[i] # NullName
            /\ \A i \in DOMAIN onUpdateHooks' : onUpdateHooks'[i] # NullName
            /\ \A i \in DOMAIN onEntityAddedHooks' : onEntityAddedHooks'[i] # NullFn
            /\ \A i \in DOMAIN onEntityRemovedHooks' : onEntityRemovedHooks'[i] # NullFn
            /\ \A n \in DOMAIN eventListeners' :
                    \A i \in DOMAIN eventListeners'[n] : eventListeners'[n][i] # NullFn
       /\ last'.op \in {"createEntity", "runSystems"} => ~last'.threw]_vars

----------------------------------------------------------------------------
(* Claims about the lifecycle hooks of the world *)

\* C20: a hook registered with addOnEntityAddedHook is invoked exactly once
\* per entity creation, in creation order, whichever path created the entity
\* (createEntity, createEntityFromArchetype, the drain of the deferred queue),
\* and when it runs the new entity is already in the store; a hook registered
\* with addOnEntityRemovedHook is invoked exactly once per removal of an
\* entity that is in the store.
C20_LifecycleHooksOncePerEntity ==
    [][/\ last'.op \in {"createEntity", "createEntityFromArchetype", "runSystems"} =>
            LET n == Len(onEntityAddedHooks)
                ran == Through(calls', "addedHook")
            IN  /\ Len(ran) = Len(CreatedNow) * n
                /\ \A k \in DOMAIN CreatedNow, h \in 1..n :
                        LET c == ran[(k - 1) * n + h]
                        IN  /\ c.cb = onEntityAddedHooks[h].fn
                            /\ c.entity = CreatedNow[k]
                            /\ c.data = <<TRUE>>
       /\ (last'.op = "removeEntity" /\ last'.arg \in Range(entities)) =>
            LET ran == Through(calls', "removedHook")
            IN  /\ Len(ran) = Len(onEntityRemovedHooks)
                /\ \A h \in DOMAIN ran :
                        /\ ran[h].cb = onEntityRemovedHooks[h].fn
                        /\ ran[h].entity = last'.arg]_vars

C20_Witness ==
    /\ last.op = "runSystems"
    /\ Len(onEntityAddedHooks) = 2
    /\ onEntityAddedHooks[1] # onEntityAddedHooks[2]
    /\ Len(Through(calls, "addedHook")) = 4
    /\ archetypes # <<>>

----------------------------------------------------------------------------
(* Claims about the event dispatcher of the middleware World *)

\* the name of the event that the last operation emitted
EmittedName == IF last.op = "mw.create" THEN "entityCreated" ELSE last.name

\* the calls of the last operation that went to middlewares
MiddlewareCalls == {i \in DOMAIN calls : calls[i].via = "middleware"}

\* C18: emitEvent runs the middlewares in the order in which use() registered
\* them, each starting only when the previous one called next; the listeners
\* of the channel run only after every middleware has called next, and with
\* an empty chain they run directly.
C18_ChainInOrderThenListeners ==
    last.op \in {"mw.create", "mw.emitEvent"} =>
        LET k == Cardinality(MiddlewareCalls)
        IN  /\ k <= Len(middlewares)
            /\ \A i \in 1..k :
                    /\ calls[i].via = "middleware"
                    /\ calls[i].cb = middlewares[i]
            /\ \A i \in 2..k : MwCallsNext(middlewares[i - 1], EmittedName)
            /\ \A i \in DOMAIN middlewares :
                    (\A j \in 1..(i - 1) : MwCallsNext(middlewares[j], EmittedName))
                        => i <= k
            /\ (\E i \in DOMAIN calls : calls[i].via # "middleware") =>
                    /\ k = Len(middlewares)
                    /\ \A i \in DOMAIN middlewares :
                            MwCallsNext(middlewares[i], EmittedName)
            /\ middlewares = <<>> =>
                    calls = ProcessEvent(mwEventListeners, mwEntities, objs, EmittedName)

C18_Witness ==
    /\ last.op = "mw.emitEvent"
    /\ Len(middlewares) = 2
    /\ middlewares[1] # middlewares[2]
    /\ Len(calls) > 2
    /\ calls[3].via = "ping"

\* C19: when some middleware does not call next for an emission, no later
\* middleware and no listener of the channel is invoked for that emission;
\* an emission for which every middleware calls next reaches the listeners,
\* also after an emission that was stopped.
C19_ShortCircuitIsPerEmission ==
    last.op \in {"mw.create", "mw.emitEvent"} =>
        LET blockers == {i \in DOMAIN middlewares :
                            ~MwCallsNext(middlewares[i], EmittedName)}
        IN  IF blockers # {}
            THEN LET b == CHOOSE i \in blockers : \A j \in blockers : i <= j
                 IN  /\ Len(calls) = b
                     /\ MiddlewareCalls = 1..b
            ELSE SubSeq(calls, Len(middlewares) + 1, Len(calls))
                    = ProcessEvent(mwEventListeners, mwEntities, objs, EmittedName)

C19_Witness ==
    /\ last.op = "mw.emitEvent"
    /\ shortCircuited
    /\ "noCreate" \in Range(middlewares)
    /\ \A i \in DOMAIN middlewares : MwCallsNext(middlewares[i], EmittedName)
    /\ \E i \in DOMAIN calls : calls[i].via # "middleware"

\* C31: update does not replace identity: after update(entity, patch) on an
\* entity in the store, the store holds the same entity object at the same
\* position, the merged values are visible through the caller's reference,
\* and a later destroy of that reference removes the updated entity.  Stated
\* for update of the middleware World.
C31_UpdateKeepsIdentity ==
    [][(last'.op = "mw.update" /\ last'.arg \in Range(mwEntities)) =>
        /\ mwEntities' = mwEntities
        /\ objs'[last'.arg] = Spread2(objs[last'.arg], last'.bag)]_vars

\* C34: in the middleware World, after any sequence of on(channel, event)
\* registrations the listeners of a channel are processed in descending
\* priority (a missing priority counts as 0), and listeners of equal
\* priority are processed in registration order.
C34_ListenersByPriorityThenRegistration ==
    [][/\ last'.op = "mw.on" =>
            LET name == last'.name
                evt == last'.bag
                old == IF name \in DOMAIN mwEventListeners
                       THEN mwEventListeners[name] ELSE <<>>
                new == mwEventListeners'[name]
            IN  \E k \in 0..Len(old) :
                    /\ new = SubSeq(old, 1, k) \o <<evt>> \o SubSeq(old, k + 1, Len(old))
                    /\ \A i \in 1..k : PriorityOf(old[i]) >= PriorityOf(evt)
                    /\ \A i \in (k + 1)..Len(old) : PriorityOf(old[i]) < PriorityOf(evt)
       /\ (last'.op = "mw.emitEvent" /\ last'.name \in DOMAIN mwEventListeners) =>
            LET listeners == mwEventListeners[last'.name]
                n == Len(mwEntities)
            IN  /\ Len(calls') = n * Len(listeners)
                /\ \A i \in DOMAIN listeners :
                        /\ \A j \in 1..n :
                                /\ calls'[(i - 1) * n + j].cb = listeners[i].actions[1]
                                /\ calls'[(i - 1) * n + j].entity = mwEntities[j]
                        /\ \A j \in 1..(i - 1) :
                                PriorityOf(listeners[j]) >= PriorityOf(listeners[i])]_vars

C34_Witness ==
    /\ last.op = "mw.emitEvent"
    /\ Len(mwEntities) = 1
    /\ "ping" \in DOMAIN mwEventListeners
    /\ mwEventListeners["ping"] =
            <<[priority |-> Undefined, conditions |-> <<>>, actions |-> <<"act2">>],
              [priority |-> 0, conditions |-> <<>>, actions |-> <<"act1">>]>>
    /\ Len(calls) = 2
    /\ calls[1].cb = "act2"

----------------------------------------------------------------------------
(* Collection: collection.ts *)

\* updateQuery(matchedEntities)
UpdateQuery(listeners, store, matched) == EmitQueryEvents(listeners, store, matched)

\* create(entity): the collection keeps the caller's object
colCreate(r, c) ==
    /\ Len(colEntities) < MaxObjs
    /\ r = NoRef => Len(objs) < MaxObjs
    /\ LET entity == IF r = NoRef THEN Len(objs) + 1 ELSE r
       IN  /\ objs' = Store(objs, entity, c)
           /\ colEntities' = Append(colEntities, entity)
           /\ calls' = UpdateQuery(colListeners, Append(colEntities, entity), <<entity>>)
           /\ last' = Op("Collection.create", r, "", c, entity, FALSE)
    /\ UNCHANGED <<notCol, colListeners>>

\* destroy(entity)
colDestroy(e) ==
    /\ IF IndexOf(colEntities, e) > 0
       THEN /\ colEntities' = Splice1(colEntities, IndexOf(colEntities, e))
            /\ calls' = UpdateQuery(colListeners,
                                    Splice1(colEntities, IndexOf(colEntities, e)), <<e>>)
       ELSE /\ calls' = <<>>
            /\ UNCHANGED colEntities
    /\ last' = Op("Collection.destroy", e, "", <<>>, NoRef, FALSE)
    /\ UNCHANGED <<objs, notCol, colListeners>>

\* subscribe(eventName, callback)
colSubscribe(name, cb) ==
    /\ (IF name \in DOMAIN colListeners THEN Len(colListeners[name]) ELSE 0) < MaxSubs
    /\ colListeners' = Subscribed(colListeners, name, UserFn(cb))
    /\ calls' = <<>>
    /\ last' = Op("Collection.subscribe", NoRef, name, <<>>, NoRef, FALSE)
    /\ UNCHANGED <<objs, notCol, colEntities>>

\* The callback of this._entities.filter in query, for an object filter.
\* filter.has!, filter.not!, filter.some! and filter.where! are used
\* unchecked (the ! is erased at run time): an omitted clause is undefined
\* and reading .every or .length of it, or calling it, is a TypeError.
ColClauses == {"has", "not", "some", "where"}
ColThrows(filter) == DOMAIN filter # ColClauses
ColMatches(filter, o) ==
    LET hasComponents == \A key \in filter["has"] : key \in DOMAIN o
        notComponents == \A key \in filter["not"] : key \notin DOMAIN o
        someComponents ==
            filter["some"] = {} \/ \E key \in filter["some"] : key \in DOMAIN o
        matchesWhere == WhereHolds(filter["where"], o)
    IN  hasComponents /\ notComponents /\ someComponents /\ matchesWhere

\* query(filter) with an object filter: the callback runs once per entity,
\* so an empty store returns [] whatever the filter
colQuery(filter) ==
    /\ IF colEntities # <<>> /\ ColThrows(filter)
       THEN last' = [QueryOp("Collection.query", filter, <<>>, NoRef)
                        EXCEPT !.threw = TRUE]
       ELSE last' = QueryOp("Collection.query", filter,
                        FilterSeq(colEntities,
                            {e \in Range(colEntities) : ColMatches(filter, objs[e])}),
                        NoRef)
    /\ calls' = <<>>
    /\ UNCHANGED <<objs, notCol, colVars>>

ColFilters ==
    {Join(Join(h, n), Join(t, w)) :
        h \in Clause("has", {{"health"}}),
        n \in Clause("not", {{"tag"}}),
        t \in Clause("some", {{}, {"health", "tag"}}),
        w \in Clause("where", {"healthPositive"})}

NextCol ==
    \/ \E c \in Literals : colCreate(NoRef, c)
    \/ \E e \in Refs : colDestroy(e)
    \/ \E f \in ColFilters : colQuery(f)
    \/ colSubscribe("queryChanged", "cb1")

SpecCol == Init /\ [][NextCol]_vars

----------------------------------------------------------------------------
(* World extends Collection: unnamed/part_001 *)

\* Collection.add(entity, component, value) with a key for component: the
\* value is assigned unless it is undefined, the object need not be stored
Added(heap, e, key, value) ==
    IF value = Undefined THEN heap
    ELSE Store(heap, e, [k \in DOMAIN heap[e] \cup {key} |->
                            IF k = key THEN value ELSE heap[e][k]])

\* add(entity, component, value): super.add, then every added listener
subAdd(e, key, value) ==
    /\ objs' = Added(objs, e, key, value)
    /\ calls' = UpdateQuery(colListeners, colEntities, <<e>>)
                    \o [i \in DOMAIN added |-> Call("on.entityAdded", added[i], e)]
    /\ last' = Op("World.add", e, key, <<>>, NoRef, FALSE)
    /\ UNCHANGED <<notSub, colVars, subVars>>

\* destroy(entity): super.destroy, then every removed listener
subDestroy(e) ==
    /\ LET at == IndexOf(colEntities, e)
           left == IF at > 0 THEN Splice1(colEntities, at) ELSE colEntities
       IN  /\ colEntities' = left
           /\ calls' = (IF at > 0 THEN UpdateQuery(colListeners, left, <<e>>) ELSE <<>>)
                        \o [i \in DOMAIN removed |-> Call("on.entityRemoved", removed[i], e)]
    /\ last' = Op("World.destroy", e, "", <<>>, NoRef, FALSE)
    /\ UNCHANGED <<objs, notSub, colListeners, subVars>>

\* on.entityAdded(callback)
onEntityAdded(cb) ==
    /\ Len(added) + Len(removed) < MaxSubs
    /\ added' = Append(added, cb)
    /\ calls' = <<>>
    /\ last' = Op("on.entityAdded", NoRef, cb, <<>>, NoRef, FALSE)
    /\ UNCHANGED <<objs, notSub, colVars, removed>>

\* on.entityRemoved(callback)
onEntityRemoved(cb) ==
    /\ Len(added) + Len(removed) < MaxSubs
    /\ removed' = Append(removed, cb)
    /\ calls' = <<>>
    /\ last' = Op("on.entityRemoved", NoRef, cb, <<>>, NoRef, FALSE)
    /\ UNCHANGED <<objs, notSub, colVars, added>>

NextSub ==
    \/ \E c \in HookLiterals : colCreate(NoRef, c)
    \/ \E e \in Refs, v \in {1, Undefined} : subAdd(e, "tag", v)
    \/ \E e \in Refs : subDestroy(e)
    \/ \E cb \in Callbacks : onEntityAdded(cb)
    \/ \E cb \in Callbacks : onEntityRemoved(cb)

SpecSub == Init /\ [][NextSub]_vars

\* C21: in the World that extends Collection, the callbacks registered with
\* on.entityAdded are each invoked once, with the new entity, for every
\* entity created with create(); the callbacks registered with
\* on.entityRemoved are invoked by destroy(entity) only when the entity was in
\* the store and was removed, and destroying an absent entity invokes none.
C21_ListenersFollowCreateAndDestroy ==
    [][/\ last'.op = "Collection.create" =>
            Through(calls', "on.entityAdded")
                = [i \in DOMAIN added |-> Call("on.entityAdded", added[i], last'.ret)]
       /\ last'.op = "World.destroy" =>
            Through(calls', "on.entityRemoved")
                = IF last'.arg \in Range(colEntities)
                  THEN [i \in DOMAIN removed |->
                            Call("on.entityRemoved", removed[i], last'.arg)]
                  ELSE <<>>]_vars

----------------------------------------------------------------------------
(* Runner: Runner.ts *)

MaxSystems == 3

\* a.order?.number ?? 0
OrderNumber(system) ==
    IF "order" \in DOMAIN system THEN system["order"].number ELSE 0

\* system.order?.auto
OrderAuto(system) ==
    IF "order" \in DOMAIN system THEN system["order"].auto ELSE FALSE

\* Array.prototype.sort with the comparator orderA - orderB: ascending, and
\* stable (ECMAScript 2019), so an element goes after the ones that compare
\* equal to it and came before it
InsertUnstable(sorted, system) ==
    LET before == SelectSeq(sorted, LAMBDA x : OrderNumber(x) < OrderNumber(system))
        after == SelectSeq(sorted, LAMBDA x : OrderNumber(x) >= OrderNumber(system))
    IN  before \o <<system>> \o after
Insert(sorted, system) ==
    LET before == SelectSeq(sorted, LAMBDA x : OrderNumber(x) <= OrderNumber(system))
        after == SelectSeq(sorted, LAMBDA x : OrderNumber(x) > OrderNumber(system))
    IN  before \o <<system>> \o after
RECURSIVE SortSystems(_)
SortSystems(list) ==
    IF list = <<>> THEN <<>>
    ELSE Insert(SortSystems(SubSeq(list, 1, Len(list) - 1)), list[Len(list)])

\* Runner.addSystem(system)
runnerAddSystem(system) ==
    /\ Len(runnerSystems) < MaxSystems
    /\ \A i \in DOMAIN runnerLog : runnerLog[i].name # system.name
    /\ runnerSystems' = IF OrderAuto(system)
                        THEN SortSystems(Append(runnerSystems, system))
                        ELSE Append(runnerSystems, system)
    /\ runnerLog' = Append(runnerLog, system)
    /\ calls' = <<>>
    /\ last' = Op("Runner.addSystem", NoRef, system.name, system, NoRef, FALSE)
    /\ UNCHANGED <<objs, notRun>>

SystemNames == {"move", "draw", "ai"}
Orders == {[auto |-> a, number |-> n] : a \in BOOLEAN, n \in {-1, 0, 1}}
Systems ==
    {[name |-> n] : n \in SystemNames}
        \cup {[name |-> n, order |-> o] : n \in SystemNames, o \in Orders}

NextOrder ==
    \E system \in Systems : runnerAddSystem(system)

SpecOrder == Init /\ [][NextOrder]_vars

\* where a system of the runner's list stands in a list
PlaceIn(list, system) == CHOOSE i \in DOMAIN list : list[i] = system

\* C22: Runner.addSystem: when every system is added with order.auto = true,
\* after each addition the runner's list is sorted ascending by order.number
\* and systems with equal order.number keep their insertion order; adding a
\* system with order.auto set leaves the whole list, this system included, in
\* ascending order of order.number counting a system without an order as 0,
\* with systems of equal number in the order they had before the sort.
C22_AutoOrderSortsStably ==
    [][last'.op = "Runner.addSystem" =>
        LET system == last'.bag
            pushed == Append(runnerSystems, system)
            key(x) == IF "order" \in DOMAIN x THEN x["order"].number ELSE 0
            sortedStably(before) ==
                /\ \A i, j \in DOMAIN runnerSystems' :
                        i < j => key(runnerSystems'[i]) <= key(runnerSystems'[j])
                /\ \A i, j \in DOMAIN runnerSystems' :
                        (i < j /\ key(runnerSystems'[i]) = key(runnerSystems'[j]))
                            => PlaceIn(before, runnerSystems'[i])
                                    < PlaceIn(before, runnerSystems'[j])
        IN  /\ Len(runnerSystems') = Len(pushed)
            /\ Range(runnerSystems') = Range(pushed)
            /\ ("order" \in DOMAIN system /\ system["order"].auto)
                    => sortedStably(pushed)
            /\ (\A i \in DOMAIN runnerLog' :
                    "order" \in DOMAIN runnerLog'[i] /\ runnerLog'[i]["order"].auto)
                    => sortedStably(runnerLog')]_vars

C22_Witness ==
    /\ last.op = "Runner.addSystem"
    /\ Len(runnerSystems) = 3
    /\ \A i \in DOMAIN runnerLog :
            "order" \in DOMAIN runnerLog[i] /\ runnerLog[i]["order"].auto
    /\ runnerLog[1]["order"].number = 1
    /\ runnerLog[2]["order"].number = 0
    /\ runnerLog[3]["order"].number = 0
    /\ runnerSystems = <<runnerLog[2], runnerLog[3], runnerLog[1]>>

(* Runner.update with systems that change the runner's list *)

\* The system object a "grow" system adds from its update
Late == [name |-> "late", order |-> [auto |-> TRUE, number |-> -1]]

\* this._systems.indexOf(system), this._systems.splice(index, 1)
RemoveSystem(list, system) ==
    IF IndexOf(list, system) = 0 THEN list ELSE Splice1(list, IndexOf(list, system))

\* system.update({ deltaTime, entities }) of a system of the user:
\*   "once"  update() { runner.removeSystem(this) }
\*   "grow"  update() { if (!this.grown) { this.grown = true; runner.addSystem(late) } }
\* and every other system only returns.  u is the runner while update runs.
Updated(system, u) ==
    IF system.name = "once"
    THEN [u EXCEPT !.list = RemoveSystem(u.list, system)]
    ELSE IF system.name = "grow" /\ \A i \in DOMAIN u.log : u.log[i] # Late
    THEN [u EXCEPT !.list = SortSystems(Append(u.list, Late)),
                   !.log = Append(u.log, Late)]
    ELSE u

\* for (const system of this._systems): the array iterator reads the element
\* at its index while the index is below the current length
RECURSIVE ForOfSystems(_, _)
ForOfSystems(k, u) ==
    IF k > Len(u.list) THEN u
    ELSE ForOfSystems(k + 1,
            Updated(u.list[k],
                    [u EXCEPT !.calls = Append(@, Call("Runner.update", u.list[k].name,
                                                       NoRef))]))

\* Runner.removeSystem(system), called between updates
runnerRemoveSystem(system) ==
    /\ runnerSystems' = RemoveSystem(runnerSystems, system)
    /\ calls' = <<>>
    /\ last' = Op("Runner.removeSystem", NoRef, system.name, system, NoRef, FALSE)
    /\ UNCHANGED <<objs, notRun, runnerLog>>

\* Runner.update(deltaTime, entities)
runnerUpdate(dt) ==
    /\ \/ Len(runnerSystems) < MaxSystems
       \/ (\A i \in DOMAIN runnerSystems : runnerSystems[i].name # "grow")
       \/ (\E j \in DOMAIN runnerLog : runnerLog[j] = Late)
    /\ \E u \in {ForOfSystems(1, [list |-> runnerSystems, log |-> runnerLog,
                                  calls |-> <<>>])} :
            /\ runnerSystems' = u.list
            /\ runnerLog' = u.log
            /\ calls' = u.calls
    /\ last' = Op("Runner.update", dt, "", <<>>, NoRef, FALSE)
    /\ UNCHANGED <<objs, notRun>>

UpdateSystems == {[name |-> n] : n \in {"move", "once", "grow"}}

NextUpdate ==
    \/ \E system \in UpdateSystems : runnerAddSystem(system)
    \/ \E system \in UpdateSystems : system \in Range(runnerSystems)
                                       /\ runnerRemoveSystem(system)
    \/ runnerUpdate(1)

SpecUpdate == Init /\ [][NextUpdate]_vars

\* the places of calls where update invoked the system called name
InvokedAt(cs, name) ==
    {k \in DOMAIN cs : cs[k].via = "Runner.update" /\ cs[k].cb = name}

\* C40: Runner.update invokes exactly once every system that is in the
\* runner's list when update starts and is not removed during the update, in
\* list order, also when a system calls removeSystem on itself or addSystem
\* while the update is running.
C40_UpdateInvokesEveryRemainingSystemOnce ==
    [][last'.op = "Runner.update" =>
        LET remaining == Range(runnerSystems) \cap Range(runnerSystems')
        IN  /\ \A s \in remaining : Cardinality(InvokedAt(calls', s.name)) = 1
            /\ \A s, t \in remaining :
                    PlaceIn(runnerSystems, s) < PlaceIn(runnerSystems, t) =>
                        \A a \in InvokedAt(calls', s.name),
                           b \in InvokedAt(calls', t.name) : a < b]_vars

\* what the claim calls satisfying a Collection filter: every clause that is
\* present holds, a clause that is omitted counts as true
ColSatisfies(f, o) ==
    /\ "has" \in DOMAIN f => f["has"] \subseteq DOMAIN o
    /\ "not" \in DOMAIN f => f["not"] \cap DOMAIN o = {}
    /\ "some" \in DOMAIN f => (f["some"] = {} \/ f["some"] \cap DOMAIN o # {})
    /\ "where" \in DOMAIN f => ("health" \in DOMAIN o /\ o["health"] > 0)

\* C9: Collection.query with an object filter that omits some of has / not /
\* some / where treats every omitted clause as true, returns the entities
\* that satisfy the clauses that are present, and does not fail.
C9_OmittedClausesAreTrue ==
    last.op = "Collection.query" =>
        /\ ~last.threw
        /\ Range(last.q.entities) =
                {e \in Range(colEntities) : ColSatisfies(last.q.filter, objs[e])}

====
